---- MODULE Spec2Model ----
(***************************************************************************)
(* Description-mining and consistency-scoring engine of the Otodom         *)
(* listing summarizer (src/scraper/otodomScraper.js).                       *)
(*                                                                         *)
(* One request is one pass through parseOtodom: the structured fields and  *)
(* the Polish description arrive, the description is translated, mined by  *)
(* parseDescriptionForHiddenInfo, compared with the structured fields by   *)
(* detectInconsistencies, reconciled into the "true" values and scored by  *)
(* assessRisk.  Nothing survives a request.                                *)
(*                                                                         *)
(* Text is modelled character by character: a string is a tuple of         *)
(* one-character strings.  Polish letters are written with a trailing      *)
(* underscore ("l_" is l-stroke, "o_" is o-acute, "e_" is e-ogonek,        *)
(* "a_" a-ogonek, "s_" s-acute, "c_" c-acute, "z_" z-dot), "~~" is the     *)
(* almost-equal sign and "^2" the superscript two; each is ONE character   *)
(* of the text.  Regular expressions are data (tuples of elements) run by  *)
(* a backtracking matcher that tries alternatives in the order the         *)
(* JavaScript engine does.                                                 *)
(***************************************************************************)
EXTENDS Integers, Sequences, FiniteSets, TLC

\* JavaScript null / undefined / NaN: the absent value (all three are falsy
\* and every use in the modelled code only tests truthiness or === false).
NULL == -1

\* An absent text field (availableFrom: null)
NoDate == "null"

----------------------------------------------------------------------------
(* Characters and character classes                                        *)

Digits == {"0","1","2","3","4","5","6","7","8","9"}

\* \s : after stripHtml only the plain space is left in a description.
Spaces == {" "}

DigitVal(c) ==
  CASE c = "0" -> 0 [] c = "1" -> 1 [] c = "2" -> 2 [] c = "3" -> 3
    [] c = "4" -> 4 [] c = "5" -> 5 [] c = "6" -> 6 [] c = "7" -> 7
    [] c = "8" -> 8 [] c = "9" -> 9

\* String.prototype.toLowerCase on one character.
LowerChar(c) ==
  CASE c = "A" -> "a" [] c = "B" -> "b" [] c = "C" -> "c" [] c = "D" -> "d"
    [] c = "E" -> "e" [] c = "F" -> "f" [] c = "G" -> "g" [] c = "H" -> "h"
    [] c = "I" -> "i" [] c = "J" -> "j" [] c = "K" -> "k" [] c = "L" -> "l"
    [] c = "M" -> "m" [] c = "N" -> "n" [] c = "O" -> "o" [] c = "P" -> "p"
    [] c = "Q" -> "q" [] c = "R" -> "r" [] c = "S" -> "s" [] c = "T" -> "t"
    [] c = "U" -> "u" [] c = "V" -> "v" [] c = "W" -> "w" [] c = "X" -> "x"
    [] c = "Y" -> "y" [] c = "Z" -> "z" [] c = "L_" -> "l_" [] c = "Z_" -> "z_"
    [] c = "S_" -> "s_" [] c = "O_" -> "o_"
    [] OTHER -> c

toLowerCase(s) == [i \in 1..Len(s) |-> LowerChar(s[i])]

\* The character classes the patterns use.
ClassHas(cls, c) ==
  CASE cls = "digit"    -> c \in Digits                              \* \d
    [] cls = "notdigit" -> c \notin Digits                           \* [^0-9]
    [] cls = "space"    -> c \in Spaces                              \* \s
    [] cls = "numsep"   -> c \in Digits \cup Spaces \cup {",", "."}  \* [\d\s,.]
    [] cls = "notdot"   -> c # "."                                   \* [^.]
    [] cls = "dashsp"   -> c \in Spaces \cup {"-"}                   \* [\s-]
    [] cls = "m2"       -> c \in Spaces \cup {"^2", "2"}             \* [²2\s]
    [] cls = "colonsp"  -> c \in Spaces \cup {":"}                   \* [:\s]
    [] cls = "telsep"   -> c \in Spaces \cup {":", "."}              \* [:\.\s]

----------------------------------------------------------------------------
(* Values                                                                  *)

\* const bound = v; then F(bound): v is evaluated once, as an assignment to a
\* const evaluates its right-hand side once.
With(v, F(_)) == CHOOSE out \in {F(bound) : bound \in {v}} : TRUE

\* A message built by string concatenation: the fixed text with the numbers
\* spliced in at %1, %2.
Msg(text, args) == [text |-> text, args |-> args]

----------------------------------------------------------------------------
(* String helpers                                                          *)

\* s occurs in text at position pos (1-based).
HasAt(text, pos, s) ==
  /\ pos + Len(s) - 1 <= Len(text)
  /\ \A i \in 1..Len(s) : text[pos + i - 1] = s[i]

\* String.prototype.includes
Includes(text, s) == \E pos \in 1..(Len(text) - Len(s) + 1) : HasAt(text, pos, s)

\* String.prototype.indexOf, 1-based; 0 when s does not occur.
IndexOf(text, s) ==
  IF Includes(text, s)
  THEN CHOOSE pos \in 1..(Len(text) - Len(s) + 1) :
         /\ HasAt(text, pos, s)
         /\ \A q \in 1..(pos - 1) : ~HasAt(text, q, s)
  ELSE 0

\* String.prototype.substring(from, to) with 0-based from (inclusive) and to
\* (exclusive), both clamped to the string.
Substring(text, from, to) ==
  LET f == IF from < 0 THEN 0 ELSE IF from > Len(text) THEN Len(text) ELSE from
      t == IF to < 0 THEN 0 ELSE IF to > Len(text) THEN Len(text) ELSE to
  IN  IF f <= t THEN SubSeq(text, f + 1, t) ELSE SubSeq(text, t + 1, f)

RECURSIVE StripChars(_, _)
\* str.replace(/[...]/g, '') for a class given as a set of characters.
StripChars(s, drop) ==
  IF s = <<>> THEN <<>>
  ELSE IF Head(s) \in drop THEN StripChars(Tail(s), drop)
       ELSE <<Head(s)>> \o StripChars(Tail(s), drop)

RECURSIVE DigitsValue(_, _, _)
\* Value of the digits of s from position i on, up to the first non-digit.
DigitsValue(s, i, acc) ==
  IF i > Len(s) \/ s[i] \notin Digits THEN acc
  ELSE DigitsValue(s, i + 1, 10 * acc + DigitVal(s[i]))

\* parseInt(s, 10) on a string without sign or leading blanks: the leading
\* digits' value, NaN (NULL) when s does not start with a digit.
parseInt(s) ==
  IF Len(s) = 0 \/ s[1] \notin Digits THEN NULL ELSE DigitsValue(s, 1, 0)

RECURSIVE NumToChars(_)
\* Number-to-string as in string concatenation, for a non-negative integer.
NumToChars(n) ==
  LET d == CHOOSE c \in Digits : DigitVal(c) = n % 10
  IN  IF n < 10 THEN <<d>> ELSE NumToChars(n \div 10) \o <<d>>

----------------------------------------------------------------------------
(* Regular expressions                                                     *)
(* A pattern is a tuple of elements:                                       *)
(*   Lit(s)              the characters s                                  *)
(*   Alt(<<p1,..,pn>>)   (?:p1|...|pn), tried left to right                *)
(*   Rep(cls,lo,hi)      cls{lo,hi}, greedy;  RepLazy: cls{lo,hi}?         *)
(*   Open(g), Close(g)   the parentheses of capture group g                *)

Unbounded == 100000

Lit(s) == [k |-> "lit", s |-> s]
Alt(alts) == [k |-> "alt", alts |-> alts]
Opt(p) == Alt(<<p, <<>>>>)
Rep(cls, lo, hi) == [k |-> "rep", cls |-> cls, lo |-> lo, hi |-> hi, lazy |-> FALSE]
RepLazy(cls, lo, hi) == [k |-> "rep", cls |-> cls, lo |-> lo, hi |-> hi, lazy |-> TRUE]
Open(g) == [k |-> "open", g |-> g]
Close(g) == [k |-> "close", g |-> g]
\* (?:w1|...|wn) for plain words
Words(ws) == Alt([i \in 1..Len(ws) |-> <<Lit(ws[i])>>])

NoMatch == [ok |-> FALSE]
NoGroups == [g \in 1..2 |-> [from |-> 0, to |-> 0]]

SetMin(S) == CHOOSE x \in S : \A y \in S : x <= y
SetMax(S) == CHOOSE x \in S : \A y \in S : x >= y

\* How many consecutive characters of class cls start at pos, at most hi.
RunLen(cls, text, pos, hi) ==
  LET lim  == IF pos + hi - 1 < Len(text) THEN pos + hi - 1 ELSE Len(text)
      stop == CHOOSE j \in pos..(lim + 1) :
                /\ j = lim + 1 \/ ~ClassHas(cls, text[j])
                /\ \A i \in pos..(j - 1) : ClassHas(cls, text[i])
  IN  IF pos > Len(text) THEN 0 ELSE stop - pos

RECURSIVE MatchSeq(_, _, _, _, _)
RECURSIVE TryAlts(_, _, _, _, _, _)
RECURSIVE TryRep(_, _, _, _, _, _, _, _)

\* Match elements k.. of pattern re at position pos; the first match in the
\* engine's backtracking order, or NoMatch.
MatchSeq(re, k, text, pos, caps) ==
  With([re |-> re, k |-> k, text |-> text, pos |-> pos, caps |-> caps], LAMBDA a :
    IF a.k > Len(a.re) THEN [ok |-> TRUE, end |-> a.pos, caps |-> a.caps]
    ELSE With(a.re[a.k], LAMBDA e :
      CASE e.k = "lit" ->
             IF HasAt(a.text, a.pos, e.s)
             THEN MatchSeq(a.re, a.k + 1, a.text, a.pos + Len(e.s), a.caps)
             ELSE NoMatch
        [] e.k = "alt" ->
             TryAlts(e.alts, 1, SubSeq(a.re, a.k + 1, Len(a.re)), a.text, a.pos, a.caps)
        [] e.k = "rep" ->
             With(RunLen(e.cls, a.text, a.pos, e.hi), LAMBDA avail :
               IF avail < e.lo THEN NoMatch
               ELSE TryRep(a.re, a.k + 1, a.text, a.pos, a.caps, e.lo, avail, e.lazy))
        [] e.k = "open" ->
             MatchSeq(a.re, a.k + 1, a.text, a.pos,
                      [a.caps EXCEPT ![e.g] = [from |-> a.pos, to |-> a.pos - 1]])
        [] e.k = "close" ->
             MatchSeq(a.re, a.k + 1, a.text, a.pos, [a.caps EXCEPT ![e.g].to = a.pos - 1])))

TryAlts(alts, i, rest, text, pos, caps) ==
  With([alts |-> alts, i |-> i, rest |-> rest, text |-> text, pos |-> pos, caps |-> caps],
       LAMBDA a :
    IF a.i > Len(a.alts) THEN NoMatch
    ELSE With(MatchSeq(a.alts[a.i] \o a.rest, 1, a.text, a.pos, a.caps), LAMBDA r :
           IF r.ok THEN r
           ELSE TryAlts(a.alts, a.i + 1, a.rest, a.text, a.pos, a.caps)))

\* The quantified class may take lo..avail characters; the rest of the
\* pattern (elements k..) decides which count stands: a greedy quantifier
\* keeps the largest count after which the rest matches, a lazy one the
\* smallest.
TryRep(re, k, text, pos, caps, lo, avail, lazy) ==
  With({<<n, MatchSeq(re, k, text, pos + n, caps)>> : n \in lo..avail}, LAMBDA tries :
    IF \A t \in tries : ~t[2].ok THEN NoMatch
    ELSE (CHOOSE t \in tries :
            /\ t[2].ok
            /\ \A u \in tries :
                 u[2].ok => IF lazy THEN t[1] <= u[1] ELSE t[1] >= u[1])[2])

RECURSIVE MayStartAt(_, _, _, _)
\* Whether a match of elements k.. of re can begin with the character at
\* pos: FALSE only where MatchSeq is bound to fail.
MayStartAt(re, k, text, pos) ==
  IF k > Len(re) THEN TRUE
  ELSE CASE re[k].k = "lit" ->
              Len(re[k].s) = 0 \/ (pos <= Len(text) /\ text[pos] = re[k].s[1])
         [] re[k].k = "rep" ->
              re[k].lo = 0 \/ (pos <= Len(text) /\ ClassHas(re[k].cls, text[pos]))
         [] re[k].k = "alt" ->
              \E i \in 1..Len(re[k].alts) :
                \/ Len(re[k].alts[i]) = 0
                \/ re[k].alts[i][1].k # "lit"
                \/ Len(re[k].alts[i][1].s) = 0
                \/ (pos <= Len(text) /\ text[pos] = re[k].alts[i][1].s[1])
         [] OTHER -> MayStartAt(re, k + 1, text, pos)

\* The leftmost match of re in text starting at position from or later:
\* [ok, start, end, caps], end being the position after the match.
Search(re, text, from) ==
  With([re |-> re, text |-> text, from |-> from], LAMBDA a :
    With({<<p, MatchSeq(a.re, 1, a.text, p, NoGroups)>> :
            p \in {q \in a.from..(Len(a.text) + 1) : MayStartAt(a.re, 1, a.text, q)}},
         LAMBDA tries :
      IF \A t \in tries : ~t[2].ok THEN NoMatch
      ELSE With(CHOOSE t \in tries : t[2].ok /\ \A u \in tries : u[2].ok => t[1] <= u[1],
                LAMBDA first :
             [ok |-> TRUE, start |-> first[1], end |-> first[2].end,
              caps |-> first[2].caps])))

RECURSIVE MatchAllFrom(_, _, _)
\* String.prototype.matchAll with a global pattern: the successive
\* non-overlapping matches, left to right.
MatchAllFrom(re, text, from) ==
  With(Search(re, text, from), LAMBDA m :
    IF ~m.ok THEN <<>>
    ELSE <<m>> \o MatchAllFrom(re, text, IF m.end > m.start THEN m.end ELSE m.end + 1))

matchAll(text, re) == MatchAllFrom(re, text, 1)

\* Whether capture group g took part in match m (match[g] !== undefined)
Participated(m, g) == m.caps[g].from # 0

\* match[g], the text of capture group g
Group(text, m, g) == SubSeq(text, m.caps[g].from, m.caps[g].to)

\* match[0]
Matched(text, m) == SubSeq(text, m.start, m.end - 1)

----------------------------------------------------------------------------
(* parseDescriptionForHiddenInfo: the pattern tables                       *)

\* const depositPatterns
depositPatterns ==
  << \* /(?:deposit|kaucja|depozyt)[^0-9]*?(\d[\d\s,.]*)\s*(?:pln|zł|zloty)/gi
     << Words(<<<<"d","e","p","o","s","i","t">>, <<"k","a","u","c","j","a">>, <<"d","e","p","o","z","y","t">>>>),
        RepLazy("notdigit", 0, Unbounded),
        Open(1),
        Rep("digit", 1, 1),
        Rep("numsep", 0, Unbounded),
        Close(1),
        Rep("space", 0, Unbounded),
        Words(<<<<"p","l","n">>, <<"z","l_">>, <<"z","l","o","t","y">>>>) >>,
     \* /(?:refundable|zwrotna)[^0-9]*?(\d[\d\s,.]*)\s*(?:pln|zł)/gi
     << Words(<<<<"r","e","f","u","n","d","a","b","l","e">>, <<"z","w","r","o","t","n","a">>>>),
        RepLazy("notdigit", 0, Unbounded),
        Open(1),
        Rep("digit", 1, 1),
        Rep("numsep", 0, Unbounded),
        Close(1),
        Rep("space", 0, Unbounded),
        Words(<<<<"p","l","n">>, <<"z","l_">>>>) >>,
     \* /(\d[\d\s,.]*)\s*(?:pln|zł)[^.]*(?:deposit|kaucja|depozyt)/gi
     << Open(1),
        Rep("digit", 1, 1),
        Rep("numsep", 0, Unbounded),
        Close(1),
        Rep("space", 0, Unbounded),
        Words(<<<<"p","l","n">>, <<"z","l_">>>>),
        Rep("notdot", 0, Unbounded),
        Words(<<<<"d","e","p","o","s","i","t">>, <<"k","a","u","c","j","a">>, <<"d","e","p","o","z","y","t">>>>) >> >>

\* const utilityPatterns
utilityPatterns ==
  << \* /(?:media|utilities|opłaty licznikowe)[^0-9]{0,20}(?:ok\.?|około|approx\.?|~|≈)\s*(\d+)(?:\s*-\s*(\d+))?\s*(?:pln|zł)[^0-9]{0,20}(?:osob|person|miesięc|month)/gi
     << Words(<<<<"m","e","d","i","a">>, <<"u","t","i","l","i","t","i","e","s">>, <<"o","p","l_","a","t","y"," ","l","i","c","z","n","i","k","o","w","e">>>>),
        Rep("notdigit", 0, 20),
        Alt(<<<<Lit(<<"o","k">>), Opt(<<Lit(<<".">>)>>)>>, <<Lit(<<"o","k","o","l_","o">>)>>, <<Lit(<<"a","p","p","r","o","x">>), Opt(<<Lit(<<".">>)>>)>>, <<Lit(<<"~">>)>>, <<Lit(<<"~~">>)>>>>),
        Rep("space", 0, Unbounded),
        Open(1),
        Rep("digit", 1, Unbounded),
        Close(1),
        Opt(<<Rep("space", 0, Unbounded), Lit(<<"-">>), Rep("space", 0, Unbounded), Open(2), Rep("digit", 1, Unbounded), Close(2)>>),
        Rep("space", 0, Unbounded),
        Words(<<<<"p","l","n">>, <<"z","l_">>>>),
        Rep("notdigit", 0, 20),
        Words(<<<<"o","s","o","b">>, <<"p","e","r","s","o","n">>, <<"m","i","e","s","i","e_","c">>, <<"m","o","n","t","h">>>>) >>,
     \* /(?:for one person|dla jednej osoby|na 1 osobę)[^0-9]{0,15}(?:ok\.?|około|~|≈)?\s*(\d+)\s*(?:pln|zł)/gi
     << Words(<<<<"f","o","r"," ","o","n","e"," ","p","e","r","s","o","n">>, <<"d","l","a"," ","j","e","d","n","e","j"," ","o","s","o","b","y">>, <<"n","a"," ","1"," ","o","s","o","b","e_">>>>),
        Rep("notdigit", 0, 15),
        Opt(<<Alt(<<<<Lit(<<"o","k">>), Opt(<<Lit(<<".">>)>>)>>, <<Lit(<<"o","k","o","l_","o">>)>>, <<Lit(<<"~">>)>>, <<Lit(<<"~~">>)>>>>)>>),
        Rep("space", 0, Unbounded),
        Open(1),
        Rep("digit", 1, Unbounded),
        Close(1),
        Rep("space", 0, Unbounded),
        Words(<<<<"p","l","n">>, <<"z","l_">>>>) >>,
     \* /(?:for two|dla dwóch|na 2 osob)[^0-9]{0,15}(?:ok\.?|około|~|≈)?\s*(\d+)\s*(?:pln|zł)/gi
     << Words(<<<<"f","o","r"," ","t","w","o">>, <<"d","l","a"," ","d","w","o_","c","h">>, <<"n","a"," ","2"," ","o","s","o","b">>>>),
        Rep("notdigit", 0, 15),
        Opt(<<Alt(<<<<Lit(<<"o","k">>), Opt(<<Lit(<<".">>)>>)>>, <<Lit(<<"o","k","o","l_","o">>)>>, <<Lit(<<"~">>)>>, <<Lit(<<"~~">>)>>>>)>>),
        Rep("space", 0, Unbounded),
        Open(1),
        Rep("digit", 1, Unbounded),
        Close(1),
        Rep("space", 0, Unbounded),
        Words(<<<<"p","l","n">>, <<"z","l_">>>>) >> >>

\* /(\d+)\s*%[^.]*(?:notary|notariusz|cost|koszt)/i
notaryCostBefore ==
  << Open(1),
     Rep("digit", 1, Unbounded),
     Close(1),
     Rep("space", 0, Unbounded),
     Lit(<<"%">>),
     Rep("notdot", 0, Unbounded),
     Words(<<<<"n","o","t","a","r","y">>, <<"n","o","t","a","r","i","u","s","z">>, <<"c","o","s","t">>, <<"k","o","s","z","t">>>>) >>

\* /(?:notary|notariusz)[^.]*(\d+)\s*%/i
notaryCostAfter ==
  << Words(<<<<"n","o","t","a","r","y">>, <<"n","o","t","a","r","i","u","s","z">>>>),
     Rep("notdot", 0, Unbounded),
     Open(1),
     Rep("digit", 1, Unbounded),
     Close(1),
     Rep("space", 0, Unbounded),
     Lit(<<"%">>) >>


\* /internet[^0-9]{0,30}?(\d{2,3})\s*(?:pln|zł)/i
internetAfter ==
  << Lit(<<"i","n","t","e","r","n","e","t">>),
     RepLazy("notdigit", 0, 30),
     Open(1),
     Rep("digit", 2, 3),
     Close(1),
     Rep("space", 0, Unbounded),
     Words(<<<<"p","l","n">>, <<"z","l_">>>>) >>

\* /(\d{2,3})\s*(?:pln|zł)[^.]{0,20}internet/i
internetBefore ==
  << Open(1),
     Rep("digit", 2, 3),
     Close(1),
     Rep("space", 0, Unbounded),
     Words(<<<<"p","l","n">>, <<"z","l_">>>>),
     Rep("notdot", 0, 20),
     Lit(<<"i","n","t","e","r","n","e","t">>) >>

\* /(?:tv|telewizj|cable|kablów)[^0-9]{0,20}?(\d{2,3})\s*(?:pln|zł)/i
tvAfter ==
  << Words(<<<<"t","v">>, <<"t","e","l","e","w","i","z","j">>, <<"c","a","b","l","e">>, <<"k","a","b","l","o_","w">>>>),
     RepLazy("notdigit", 0, 20),
     Open(1),
     Rep("digit", 2, 3),
     Close(1),
     Rep("space", 0, Unbounded),
     Words(<<<<"p","l","n">>, <<"z","l_">>>>) >>

\* /(\d{2,3})\s*(?:pln|zł)[^.]{0,15}(?:tv|telewizj|cable)/i
tvBefore ==
  << Open(1),
     Rep("digit", 2, 3),
     Close(1),
     Rep("space", 0, Unbounded),
     Words(<<<<"p","l","n">>, <<"z","l_">>>>),
     Rep("notdot", 0, 15),
     Words(<<<<"t","v">>, <<"t","e","l","e","w","i","z","j">>, <<"c","a","b","l","e">>>>) >>

\* /internet[^0-9]{0,10}(?:\+|and|oraz|i)[^0-9]{0,10}(?:tv|telewizj|upc|cable)[^0-9]{0,15}?(\d{2,3})\s*(?:pln|zł)/i
comboPattern ==
  << Lit(<<"i","n","t","e","r","n","e","t">>),
     Rep("notdigit", 0, 10),
     Words(<<<<"+">>, <<"a","n","d">>, <<"o","r","a","z">>, <<"i">>>>),
     Rep("notdigit", 0, 10),
     Words(<<<<"t","v">>, <<"t","e","l","e","w","i","z","j">>, <<"u","p","c">>, <<"c","a","b","l","e">>>>),
     RepLazy("notdigit", 0, 15),
     Open(1),
     Rep("digit", 2, 3),
     Close(1),
     Rep("space", 0, Unbounded),
     Words(<<<<"p","l","n">>, <<"z","l_">>>>) >>

\* /(?:parking|garaż|garage|miejsce postojowe|miejsce garażowe)[^0-9]{0,25}?(\d{2,3})\s*(?:pln|zł)/i
parkingAfter ==
  << Words(<<<<"p","a","r","k","i","n","g">>, <<"g","a","r","a","z_">>, <<"g","a","r","a","g","e">>, <<"m","i","e","j","s","c","e"," ","p","o","s","t","o","j","o","w","e">>, <<"m","i","e","j","s","c","e"," ","g","a","r","a","z_","o","w","e">>>>),
     RepLazy("notdigit", 0, 25),
     Open(1),
     Rep("digit", 2, 3),
     Close(1),
     Rep("space", 0, Unbounded),
     Words(<<<<"p","l","n">>, <<"z","l_">>>>) >>

\* /(\d{2,3})\s*(?:pln|zł)[^.]{0,20}(?:parking|garaż|garage|postojow)/i
parkingBefore ==
  << Open(1),
     Rep("digit", 2, 3),
     Close(1),
     Rep("space", 0, Unbounded),
     Words(<<<<"p","l","n">>, <<"z","l_">>>>),
     Rep("notdot", 0, 20),
     Words(<<<<"p","a","r","k","i","n","g">>, <<"g","a","r","a","z_">>, <<"g","a","r","a","g","e">>, <<"p","o","s","t","o","j","o","w">>>>) >>

\* const contractPatterns
contractPatterns ==
  << \* /(\d+)[\s-]*(?:month|miesiąc|miesięc)[^.]*(?:contract|umowa|minimum)/gi
     << Open(1),
        Rep("digit", 1, Unbounded),
        Close(1),
        Rep("dashsp", 0, Unbounded),
        Words(<<<<"m","o","n","t","h">>, <<"m","i","e","s","i","a_","c">>, <<"m","i","e","s","i","e_","c">>>>),
        Rep("notdot", 0, Unbounded),
        Words(<<<<"c","o","n","t","r","a","c","t">>, <<"u","m","o","w","a">>, <<"m","i","n","i","m","u","m">>>>) >>,
     \* /(?:minimum|min\.?|at least)[^0-9]*(\d+)[\s-]*(?:month|miesiąc)/gi
     << Alt(<<<<Lit(<<"m","i","n","i","m","u","m">>)>>, <<Lit(<<"m","i","n">>), Opt(<<Lit(<<".">>)>>)>>, <<Lit(<<"a","t"," ","l","e","a","s","t">>)>>>>),
        Rep("notdigit", 0, Unbounded),
        Open(1),
        Rep("digit", 1, Unbounded),
        Close(1),
        Rep("dashsp", 0, Unbounded),
        Words(<<<<"m","o","n","t","h">>, <<"m","i","e","s","i","a_","c">>>>) >>,
     \* /(?:contract|umowa)[^.]*(\d+)[\s-]*(?:month|miesiąc)/gi
     << Words(<<<<"c","o","n","t","r","a","c","t">>, <<"u","m","o","w","a">>>>),
        Rep("notdot", 0, Unbounded),
        Open(1),
        Rep("digit", 1, Unbounded),
        Close(1),
        Rep("dashsp", 0, Unbounded),
        Words(<<<<"m","o","n","t","h">>, <<"m","i","e","s","i","a_","c">>>>) >> >>

\* const meteredPatterns: the pattern of each entry ...
meteredPatterns ==
  << \* /(?:meter|licznik|według zużycia|wg zużycia|according to consumption|based on consumption|faktyczne zużycie)/gi
     << Words(<<<<"m","e","t","e","r">>, <<"l","i","c","z","n","i","k">>, <<"w","e","d","l_","u","g"," ","z","u","z_","y","c","i","a">>, <<"w","g"," ","z","u","z_","y","c","i","a">>, <<"a","c","c","o","r","d","i","n","g"," ","t","o"," ","c","o","n","s","u","m","p","t","i","o","n">>, <<"b","a","s","e","d"," ","o","n"," ","c","o","n","s","u","m","p","t","i","o","n">>, <<"f","a","k","t","y","c","z","n","e"," ","z","u","z_","y","c","i","e">>>>) >>,
     \* /(?:electricity|prąd|elektryczn)[^.]*(?:meter|licznik|zużyci|consumption)/gi
     << Words(<<<<"e","l","e","c","t","r","i","c","i","t","y">>, <<"p","r","a_","d">>, <<"e","l","e","k","t","r","y","c","z","n">>>>),
        Rep("notdot", 0, Unbounded),
        Words(<<<<"m","e","t","e","r">>, <<"l","i","c","z","n","i","k">>, <<"z","u","z_","y","c","i">>, <<"c","o","n","s","u","m","p","t","i","o","n">>>>) >>,
     \* /(?:gas|gaz)[^.]*(?:meter|licznik|zużyci|consumption)/gi
     << Words(<<<<"g","a","s">>, <<"g","a","z">>>>),
        Rep("notdot", 0, Unbounded),
        Words(<<<<"m","e","t","e","r">>, <<"l","i","c","z","n","i","k">>, <<"z","u","z_","y","c","i">>, <<"c","o","n","s","u","m","p","t","i","o","n">>>>) >>,
     \* /(?:water|woda|wod)[^.]*(?:meter|licznik|zużyci|consumption)/gi
     << Words(<<<<"w","a","t","e","r">>, <<"w","o","d","a">>, <<"w","o","d">>>>),
        Rep("notdot", 0, Unbounded),
        Words(<<<<"m","e","t","e","r">>, <<"l","i","c","z","n","i","k">>, <<"z","u","z_","y","c","i">>, <<"c","o","n","s","u","m","p","t","i","o","n">>>>) >>,
     \* /(?:meter fees|opłaty licznikowe|media według)/gi
     << Words(<<<<"m","e","t","e","r"," ","f","e","e","s">>, <<"o","p","l_","a","t","y"," ","l","i","c","z","n","i","k","o","w","e">>, <<"m","e","d","i","a"," ","w","e","d","l_","u","g">>>>) >> >>

\* ... and its type
meteredTypes == <<"general", "electricity", "gas", "water", "general">>

\* const badPatterns (isNumberInBadContext)
badPatterns ==
  << \* /lini[ae]|line|bus|autobus|tramwaj|tram|metro/
     << Alt(<<<<Lit(<<"l","i","n","i">>), Words(<<<<"a">>, <<"e">>>>)>>, <<Lit(<<"l","i","n","e">>)>>, <<Lit(<<"b","u","s">>)>>, <<Lit(<<"a","u","t","o","b","u","s">>)>>, <<Lit(<<"t","r","a","m","w","a","j">>)>>, <<Lit(<<"t","r","a","m">>)>>, <<Lit(<<"m","e","t","r","o">>)>>>>) >>,
     \* /\d+\s*m[²2\s]|metr|square/
     << Alt(<<<<Rep("digit", 1, Unbounded), Rep("space", 0, Unbounded), Lit(<<"m">>), Rep("m2", 1, 1)>>, <<Lit(<<"m","e","t","r">>)>>, <<Lit(<<"s","q","u","a","r","e">>)>>>>) >>,
     \* /floor|piętro|piętr/
     << Words(<<<<"f","l","o","o","r">>, <<"p","i","e_","t","r","o">>, <<"p","i","e_","t","r">>>>) >>,
     \* /km|kilom|odległ|distance|od\s+/
     << Alt(<<<<Lit(<<"k","m">>)>>, <<Lit(<<"k","i","l","o","m">>)>>, <<Lit(<<"o","d","l","e","g","l_">>)>>, <<Lit(<<"d","i","s","t","a","n","c","e">>)>>, <<Lit(<<"o","d">>), Rep("space", 1, Unbounded)>>>>) >>,
     \* /rok|year|lat\s/
     << Alt(<<<<Lit(<<"r","o","k">>)>>, <<Lit(<<"y","e","a","r">>)>>, <<Lit(<<"l","a","t">>), Rep("space", 1, 1)>>>>) >>,
     \* /osób|person|people|mieszk/
     << Words(<<<<"o","s","o_","b">>, <<"p","e","r","s","o","n">>, <<"p","e","o","p","l","e">>, <<"m","i","e","s","z","k">>>>) >>,
     \* /numer|number|nr\s/
     << Alt(<<<<Lit(<<"n","u","m","e","r">>)>>, <<Lit(<<"n","u","m","b","e","r">>)>>, <<Lit(<<"n","r">>), Rep("space", 1, 1)>>>>) >>,
     \* /id[:\s]/
     << Lit(<<"i","d">>),
        Rep("colonsp", 1, 1) >>,
     \* /telefon|phone|tel[:\.\s]/
     << Alt(<<<<Lit(<<"t","e","l","e","f","o","n">>)>>, <<Lit(<<"p","h","o","n","e">>)>>, <<Lit(<<"t","e","l">>), Rep("telsep", 1, 1)>>>>) >> >>


----------------------------------------------------------------------------
(* parseDescriptionForHiddenInfo                                           *)

\* JavaScript truthiness of a number-or-null: null, NaN and 0 are falsy.
Truthy(x) == x # NULL /\ x # 0

\* x || y on numbers-or-null
OrElse(x, y) == IF Truthy(x) THEN x ELSE y

\* Math.round(a / b) for integers a >= 0, b > 0 (halves round up).
RoundDiv(a, b) == (2 * a + b) \div (2 * b)

IncludesAny(text, keys) == \E i \in 1..Len(keys) : Includes(text, keys[i])

\* const combined = textPL + ' ' + textEN, both lower-cased
Combined(textPL, textEN) ==
  toLowerCase(textPL) \o <<" ">> \o toLowerCase(textEN)

\* parseInt(match[1].replace(/[\s,.]/g, ''), 10)
DepositAmount(text, m) == parseInt(StripChars(Group(text, m, 1), {" ", ",", "."}))

\* A range that takes its two ends in.
DepositInRangeInclusive(amount) == Truthy(amount) /\ amount >= 500 /\ amount <= 50000

\* if (amount && amount > 500 && amount < 50000)
DepositInRange(amount) == Truthy(amount) /\ amount > 500 /\ amount < 50000

\* The inner loop over one pattern's matches: the first match in range.
FirstDepositOf(text, pattern) ==
  With(matchAll(text, pattern), LAMBDA ms :
    With({<<i, DepositAmount(text, ms[i])>> : i \in 1..Len(ms)}, LAMBDA amounts :
      IF \A x \in amounts : ~DepositInRange(x[2]) THEN NULL
      ELSE (CHOOSE x \in amounts :
              /\ DepositInRange(x[2])
              /\ \A y \in amounts : DepositInRange(y[2]) => x[1] <= y[1])[2]))

\* DEPOSIT DETECTION: the patterns in order, stopping at the first accepted value.
HiddenDeposit(text) ==
  With({<<p, FirstDepositOf(text, depositPatterns[p])>> : p \in 1..Len(depositPatterns)},
       LAMBDA firsts :
    IF \A f \in firsts : f[2] = NULL THEN NULL
    ELSE (CHOOSE f \in firsts :
            /\ f[2] # NULL
            /\ \A g \in firsts : g[2] # NULL => f[1] <= g[1])[2])

\* The band an earlier revision of the parser accepted.
UtilityInBandWide(val) == Truthy(val) /\ val > 20 /\ val < 1000

\* if (val >= 50 && val <= 500)
UtilityInBand(val) == Truthy(val) /\ val >= 50 /\ val <= 500

\* One pass of the body of the utility loop on match m; acc = [min, max].
UtilityStep(text, m, acc) ==
  LET val1 == parseInt(Group(text, m, 1))
      val2 == IF Participated(m, 2) THEN parseInt(Group(text, m, 2)) ELSE NULL
      min1 == IF UtilityInBand(val1) /\ (~Truthy(acc.min) \/ val1 < acc.min)
              THEN val1 ELSE acc.min
      max1 == IF UtilityInBand(val1) /\ (~Truthy(acc.max) \/ val1 > acc.max)
              THEN val1 ELSE acc.max
      max2 == IF UtilityInBand(val2) /\ (~Truthy(max1) \/ val2 > max1)
              THEN val2 ELSE max1
  IN  [min |-> min1, max |-> max2]

RECURSIVE UtilityFold(_, _, _, _)
\* for (const match of matches) ...
UtilityFold(text, ms, i, acc) ==
  IF i > Len(ms) THEN acc
  ELSE With(UtilityStep(text, ms[i], acc), LAMBDA next :
         UtilityFold(text, ms, i + 1, next))

RECURSIVE UtilityScan(_, _, _)
\* for (const pattern of utilityPatterns) ...
UtilityScan(text, p, acc) ==
  IF p > Len(utilityPatterns) THEN acc
  ELSE With(matchAll(text, utilityPatterns[p]), LAMBDA ms :
         With(UtilityFold(text, ms, 1, acc), LAMBDA folded :
           UtilityScan(text, p + 1, folded)))

NoUtilities == [min |-> NULL, max |-> NULL, avg |-> NULL]

\* The estimate built whether or not a value was accepted.
HiddenUtilitiesUnguarded(text) ==
  With(UtilityScan(text, 1, [min |-> NULL, max |-> NULL]), LAMBDA u :
    [min |-> OrElse(u.min, u.max),
     max |-> OrElse(u.max, u.min),
     avg |-> IF Truthy(u.min) \/ Truthy(u.max)
             THEN RoundDiv(OrElse(u.min, u.max) + OrElse(u.max, u.min), 2) ELSE 0])

\* METERED UTILITIES DETECTION: result.hiddenUtilities
HiddenUtilities(text) ==
  With(UtilityScan(text, 1, [min |-> NULL, max |-> NULL]), LAMBDA u :
    IF Truthy(u.min) \/ Truthy(u.max)
    THEN [min |-> OrElse(u.min, u.max),
          max |-> OrElse(u.max, u.min),
          avg |-> RoundDiv(OrElse(u.min, u.max) + OrElse(u.max, u.min), 2)]
    ELSE NoUtilities)

\* The lastIndex of the RegExp objects that carry the g flag and are driven
\* through exec or test (those handed to matchAll are cloned by it and stay
\* as they were created).
FreshRegExps == [contract |-> <<0, 0, 0>>, metered |-> <<0, 0, 0, 0, 0>>]

\* A literal evaluated once and shared by all calls: the object is the one
\* of the call before.
RegExpShared(left) == left

\* Evaluating a regular-expression literal creates a new RegExp object, whose
\* lastIndex is 0; left is the lastIndex of the object the same literal
\* created the time before.
RegExpLiteral(left) == 0

\* const contractPatterns = [...]; const meteredPatterns = [...]: the objects
\* one call creates.
NewRegExps(left) ==
  [contract |-> [i \in 1..3 |-> RegExpLiteral(left.contract[i])],
   metered  |-> [i \in 1..5 |-> RegExpLiteral(left.metered[i])]]

\* RegExp.prototype.exec with the g flag: the search starts at lastIndex
\* (0-based); lastIndex becomes the end of the match, or 0 when there is none.
\* RegExp.prototype.test is exec(...) !== null.
exec(re, text, lastIndex) ==
  With(IF lastIndex > Len(text) THEN NoMatch ELSE Search(re, text, lastIndex + 1),
       LAMBDA m :
    [match |-> m, lastIndex |-> IF m.ok THEN m.end - 1 ELSE 0])

NoContract == [months |-> NULL]

RECURSIVE ContractScan(_, _, _)
\* CONTRACT TERMS: for (const pattern of contractPatterns) { pattern.exec ... break }
\* regs is the lastIndex of the three objects.
ContractScan(text, p, regs) ==
  IF p > Len(contractPatterns) THEN [terms |-> NoContract, regs |-> regs]
  ELSE With(exec(contractPatterns[p], text, regs[p]), LAMBDA r :
         With([regs EXCEPT ![p] = r.lastIndex], LAMBDA after :
           With(IF r.match.ok THEN parseInt(Group(text, r.match, 1)) ELSE NULL,
                LAMBDA months :
             IF r.match.ok /\ months >= 1 /\ months <= 36
             THEN [terms |-> [months |-> months], regs |-> after]
             ELSE ContractScan(text, p + 1, after))))

\* combined.match(a) || combined.match(b)
MatchEither(text, a, b) ==
  With(Search(a, text, 1), LAMBDA ma : IF ma.ok THEN ma ELSE Search(b, text, 1))

NoNotary == [required |-> FALSE, ownerPays |-> NULL]

\* NOTARY REQUIREMENT: result.notaryInfo
NotaryInfo(text) ==
  IF IncludesAny(text, << <<"n","o","t","a","r","y">>, <<"n","o","t","a","r","i","u","s","z">>, <<"n","o","t","a","r","i","a","l">> >>)
  THEN With(MatchEither(text, notaryCostBefore, notaryCostAfter), LAMBDA costMatch :
         [required  |-> TRUE,
          ownerPays |-> IF costMatch.ok THEN parseInt(Group(text, costMatch, 1)) ELSE NULL])
  ELSE NoNotary

\* REGISTRATION (ZAMELDOWANIE): result.registrationAllowed, "null" when the
\* text does not settle it.
RegistrationAllowed(text) ==
  IF IncludesAny(text, << <<"z","a","m","e","l","d","o","w","a","n","i","e">>, <<"r","e","g","i","s","t","r","a","t","i","o","n">>, <<"m","e","l","d","u","n">> >>)
  THEN IF IncludesAny(text, << <<"b","e","z"," ","z","a","m","e","l","d","o","w","a","n","i","a">>, <<"n","o"," ","r","e","g","i","s","t","r","a","t","i","o","n">>,
                               <<"w","i","t","h","o","u","t"," ","r","e","g","i","s","t","r","a","t","i","o","n">>,
                               <<"n","i","e"," ","m","a"," ","m","o","z_","l","i","w","o","s_","c","i"," ","z","a","m","e","l","d">> >>)
       THEN "false"
       ELSE IF IncludesAny(text, << <<"m","o","z_","l","i","w","o","s_","c_"," ","z","a","m","e","l","d">>, <<"r","e","g","i","s","t","r","a","t","i","o","n"," ","p","o","s","s","i","b","l","e">>,
                                    <<"z","a","m","e","l","d","o","w","a","n","i","e"," ","m","o","z_","l","i","w","e">> >>)
            THEN "true"
            ELSE "null"
  ELSE "null"

\* Agency keywords without the English "commission".
agencyKeywordsNoCommission ==
  << <<"b","i","u","r","o">>, <<"a","g","e","n","c","y">>, <<"p","o","s_","r","e","d","n","i","k">>, <<"a","g","e","n","t">>, <<"p","r","o","w","i","z","j","a">> >>

\* The keywords of the first branch of ADVERTISER TYPE DETECTION
agencyKeywords ==
  << <<"b","i","u","r","o">>, <<"a","g","e","n","c","y">>, <<"p","o","s_","r","e","d","n","i","k">>, <<"a","g","e","n","t">>, <<"p","r","o","w","i","z","j","a">>, <<"c","o","m","m","i","s","s","i","o","n">> >>

\* The keywords of its else-if branch
privateKeywords ==
  << <<"p","r","y","w","a","t">>, <<"p","r","i","v","a","t","e">>, <<"o","w","n","e","r">>, <<"w","l_","a","s_","c","i","c","i","e","l">>, <<"b","e","z"," ","p","r","o","w","i","z","j","i">>, <<"n","o"," ","c","o","m","m","i","s","s","i","o","n">>, <<"b","e","z","p","o","s_","r","e","d","n","i","o">> >>

\* A classification that asks for the private keywords first.
AdvertiserTypePrivateFirst(text) ==
  IF IncludesAny(text, privateKeywords) THEN "private"
  ELSE IF IncludesAny(text, agencyKeywords) THEN "agency"
       ELSE "null"

\* ADVERTISER TYPE DETECTION: result.advertiserType, "null" when no keyword occurs.
AdvertiserType(text) ==
  IF IncludesAny(text, agencyKeywords) THEN "agency"
  ELSE IF IncludesAny(text, privateKeywords) THEN "private"
       ELSE "null"

\* result.importantNotes: the notes pushed with result.contractTerms, with
\* result.notaryInfo and with result.registrationAllowed, then those of PET
\* POLICY, SMOKING POLICY and STUDENTS, in this order
ImportantNotes(text, terms, notaryInfo, registrationAllowed) ==
  (
    IF terms = NoContract THEN <<>>
    ELSE <<Msg("%1-month minimum contract mentioned", <<terms.months>>)>>
  ) \o (
    IF ~notaryInfo.required THEN <<>>
    ELSE IF notaryInfo.ownerPays # NULL
         THEN <<Msg("Notary contract required (owner covers %1%)", <<notaryInfo.ownerPays>>)>>
         ELSE <<Msg("Notary contract required", <<>>)>>
  ) \o (
    IF registrationAllowed = "false"
    THEN <<Msg("Registration (zameldowanie) NOT possible", <<>>)>>
    ELSE IF registrationAllowed = "true"
         THEN <<Msg("Registration (zameldowanie) possible", <<>>)>>
         ELSE <<>>
  ) \o (
    IF IncludesAny(text, << <<"n","o"," ","p","e","t","s">>, <<"b","e","z"," ","z","w","i","e","r","z","a_","t">>, <<"n","o"," ","a","n","i","m","a","l","s">> >>)
    THEN <<Msg("No pets allowed", <<>>)>>
    ELSE IF IncludesAny(text, << <<"p","e","t","s"," ","w","e","l","c","o","m","e">>, <<"z","w","i","e","r","z","e_","t","a"," ","m","i","l","e">>, <<"p","e","t","s"," ","a","l","l","o","w","e","d">>, <<"a","k","c","e","p","t","u","j","e","m","y"," ","z","w","i","e","r","z","e_","t","a">> >>)
         THEN <<Msg("Pets allowed", <<>>)>>
         ELSE <<>>
  ) \o (
    IF IncludesAny(text, << <<"n","o"," ","s","m","o","k","i","n","g">>, <<"n","i","e","p","a","l","a_","c","y","c","h">>, <<"z","a","k","a","z"," ","p","a","l","e","n","i","a">> >>)
    THEN <<Msg("Non-smokers only", <<>>)>>
    ELSE <<>>
  ) \o (
    IF IncludesAny(text, << <<"n","o"," ","s","t","u","d","e","n","t","s">>, <<"b","e","z"," ","s","t","u","d","e","n","t","o_","w">> >>)
    THEN <<Msg("Not renting to students", <<>>)>>
    ELSE IF IncludesAny(text, << <<"s","t","u","d","e","n","t","s"," ","w","e","l","c","o","m","e">>, <<"d","l","a"," ","s","t","u","d","e","n","t","o_","w">>, <<"s","t","u","d","e","n","c","i"," ","m","i","l","e"," ","w","i","d","z","i","a","n","i">> >>)
         THEN <<Msg("Student-friendly", <<>>)>>
         ELSE <<>>
  )

\* const isNumberInBadContext = (text, matchIndex, matchLength) => ...
\* matchIndex is 0-based, as indexOf returns it.
isNumberInBadContext(text, matchIndex, matchLength) ==
  With(toLowerCase(Substring(text, IF matchIndex - 50 > 0 THEN matchIndex - 50 ELSE 0,
                             matchIndex))
         \o toLowerCase(Substring(text, matchIndex + matchLength,
                                  matchIndex + matchLength + 50)),
       LAMBDA context :
    \E b \in 1..Len(badPatterns) : Search(badPatterns[b], context, 1).ok)

\* A labelled single fee taken whatever its amount.
SingleFeeAnyAmount(text, m, lo, hi) ==
  IF ~m.ok THEN NULL
  ELSE With(parseInt(Group(text, m, 1)), LAMBDA amount :
         With(Matched(text, m), LAMBDA whole :
           With(IndexOf(text, whole) - 1, LAMBDA matchIndex :
             IF ~isNumberInBadContext(text, matchIndex, Len(whole))
             THEN amount ELSE NULL)))

\* A labelled single fee: the matched amount when it lies in lo..hi and the
\* match is not in a bad context; NULL otherwise.
SingleFee(text, m, lo, hi) ==
  IF ~m.ok THEN NULL
  ELSE With(parseInt(Group(text, m, 1)), LAMBDA amount :
         With(Matched(text, m), LAMBDA whole :
           With(IndexOf(text, whole) - 1, LAMBDA matchIndex :
             IF amount >= lo /\ amount <= hi
                /\ ~isNumberInBadContext(text, matchIndex, Len(whole))
             THEN amount ELSE NULL)))

Fee(type, amount) == [type |-> type, amount |-> amount]

\* Internet fee
InternetFees(text) ==
  With(MatchEither(text, internetAfter, internetBefore), LAMBDA m :
    With(SingleFee(text, m, 40, 200), LAMBDA amount :
      IF amount = NULL THEN <<>> ELSE <<Fee("internet", amount)>>))

\* A TV/Cable fee recorded next to an internet fee.
TvFeesUnguarded(text, fees) ==
  With(MatchEither(text, tvAfter, tvBefore), LAMBDA m :
    With(SingleFee(text, m, 30, 150), LAMBDA amount :
      IF amount = NULL THEN fees ELSE fees \o <<Fee("tv", amount)>>))

\* TV/Cable fee, skipped once an internet fee is recorded
TvFees(text, fees) ==
  With(MatchEither(text, tvAfter, tvBefore), LAMBDA m :
    IF m.ok /\ ~(\E i \in 1..Len(fees) : fees[i].type = "internet")
    THEN With(SingleFee(text, m, 30, 150), LAMBDA amount :
           IF amount = NULL THEN fees ELSE fees \o <<Fee("tv", amount)>>)
    ELSE fees)

\* Combined Internet + TV added next to the individual entries.
ComboFeesKeepingSingles(text, fees) ==
  With(Search(comboPattern, text, 1), LAMBDA m :
    IF ~m.ok THEN fees
    ELSE With(parseInt(Group(text, m, 1)), LAMBDA amount :
           IF amount >= 60 /\ amount <= 250
           THEN fees \o <<Fee("internet_tv", amount)>>
           ELSE fees))

\* Combined Internet + TV: replaces the individual internet / tv entries
ComboFees(text, fees) ==
  With(Search(comboPattern, text, 1), LAMBDA m :
    IF ~m.ok THEN fees
    ELSE With(parseInt(Group(text, m, 1)), LAMBDA amount :
           IF amount >= 60 /\ amount <= 250
           THEN SelectSeq(fees, LAMBDA f : f.type # "internet" /\ f.type # "tv")
                  \o <<Fee("internet_tv", amount)>>
           ELSE fees))

\* Parking fee
ParkingFees(text, fees) ==
  With(MatchEither(text, parkingAfter, parkingBefore), LAMBDA m :
    With(SingleFee(text, m, 100, 500), LAMBDA amount :
      IF amount = NULL THEN fees ELSE fees \o <<Fee("parking", amount)>>))

\* ADDITIONAL FEES DETECTION: result.additionalFees
AdditionalFees(text) ==
  With(InternetFees(text), LAMBDA internet :
    With(TvFees(text, internet), LAMBDA tv :
      With(ComboFees(text, tv), LAMBDA combo :
        ParkingFees(text, combo))))

RECURSIVE MeteredScan(_, _, _, _)
\* METERED/CONSUMPTION-BASED FEES FLAG: for (const { pattern, type } of
\* meteredPatterns) { if (pattern.test(combined)) ... }; regs is the lastIndex
\* of the five objects, acc = [has, types].
MeteredScan(text, p, regs, acc) ==
  IF p > Len(meteredPatterns) THEN [has |-> acc.has, types |-> acc.types, regs |-> regs]
  ELSE With(exec(meteredPatterns[p], text, regs[p]), LAMBDA r :
         MeteredScan(text, p + 1, [regs EXCEPT ![p] = r.lastIndex],
           IF ~r.match.ok THEN acc
           ELSE [has   |-> TRUE,
                 types |-> IF /\ meteredTypes[p] # "general"
                              /\ \A i \in 1..Len(acc.types) : acc.types[i] # meteredTypes[p]
                           THEN acc.types \o <<meteredTypes[p]>>
                           ELSE acc.types]))

\* if (result.hasMeteredFees && result.meteredFeeTypes.length === 0) { ... }
MeteredFallback(text, has, types) ==
  IF has /\ types = <<>>
  THEN (IF IncludesAny(text, << <<"e","l","e","k","t","r","y","c","z","n">>, <<"e","l","e","c","t","r","i","c","i","t","y">>, <<"p","r","a_","d">> >>)
        THEN <<"electricity">> ELSE <<>>)
       \o (IF IncludesAny(text, << <<"g","a","z">>, <<"g","a","s">> >>)
           THEN <<"gas">> ELSE <<>>)
  ELSE types

\* result.hasMeteredFees and result.meteredFeeTypes, with the lastIndex the
\* five objects are left with
MeteredFees(text, regs) ==
  With(MeteredScan(text, 1, regs, [has |-> FALSE, types |-> <<>>]), LAMBDA scan :
    [hasMeteredFees  |-> scan.has,
     meteredFeeTypes |-> MeteredFallback(text, scan.has, scan.types),
     regs            |-> scan.regs])

RECURSIVE SumAmounts(_)
\* result.additionalFees.reduce((sum, f) => sum + f.amount, 0)
SumAmounts(fees) ==
  IF fees = <<>> THEN 0 ELSE Head(fees).amount + SumAmounts(Tail(fees))

\* The parameters are descriptionPL and descriptionEN in the code; they bear
\* here the names of the lower-cased copies the function works on.  regExps
\* is the lastIndex of the RegExp objects the call has created.  The value is
\* the result object together with the lastIndex those objects are left with.
Parse(textPL, textEN, regExps) ==
  With(Combined(textPL, textEN), LAMBDA combined :
    With(AdditionalFees(combined), LAMBDA fees :
      With(ContractScan(combined, 1, regExps.contract), LAMBDA contract :
        With(MeteredFees(combined, regExps.metered), LAMBDA metered :
          With([notaryInfo          |-> NotaryInfo(combined),
                registrationAllowed |-> RegistrationAllowed(combined)], LAMBDA found :
            [result |->
               [inconsistencies     |-> <<>>,
                importantNotes      |-> ImportantNotes(combined, contract.terms,
                                                          found.notaryInfo,
                                                          found.registrationAllowed),
                hiddenDeposit       |-> HiddenDeposit(combined),
                hiddenUtilities     |-> HiddenUtilities(combined),
                contractTerms       |-> contract.terms,
                notaryInfo          |-> found.notaryInfo,
                registrationAllowed |-> found.registrationAllowed,
                advertiserType      |-> AdvertiserType(combined),
                additionalFees      |-> fees,
                hasMeteredFees      |-> metered.hasMeteredFees,
                meteredFeeTypes     |-> metered.meteredFeeTypes,
                totalAdditionalFees |-> SumAmounts(fees)],
             regExps |-> [contract |-> contract.regs, metered |-> metered.regs]])))))

\* One call: the literals are evaluated, then the body runs.  left is the
\* lastIndex of the objects the call before created.
parseDescriptionForHiddenInfo(textPL, textEN, left) ==
  Parse(textPL, textEN, NewRegExps(left))


----------------------------------------------------------------------------
(* detectInconsistencies                                                   *)

Abs(x) == IF x < 0 THEN 0 - x ELSE x

\* A comparison that also flags a difference of exactly 20%.
DepositsDifferOrEqual(descDeposit, listedDeposit) ==
  5 * Abs(descDeposit - listedDeposit) >= listedDeposit

\* Math.abs(descDeposit - listedDeposit) > listedDeposit * 0.2
\* The code compares in IEEE doubles.  For an integer deposit l the product
\* l * 0.2 rounds to exactly l / 5 when 5 divides l and lies strictly between
\* two integers otherwise, so for integers the comparison is 5 * |d - l| > l.
DepositsDiffer(descDeposit, listedDeposit) ==
  5 * Abs(descDeposit - listedDeposit) > listedDeposit

DepositMismatch(listedDeposit, descDeposit) ==
  [type |-> "deposit_mismatch", severity |-> "high",
   message |-> Msg("Deposit mismatch: Listed as %1 PLN but description mentions %2 PLN",
                   <<listedDeposit, descDeposit>>),
   listedValue |-> listedDeposit, descriptionValue |-> descDeposit,
   estimatedCost |-> NoUtilities]

HiddenUtilitiesFound(utils) ==
  [type |-> "hidden_utilities", severity |-> "medium",
   message |-> Msg("Utilities are metered: ~%1-%2 PLN/month (not included in listed admin fee)",
                   <<utils.min, utils.max>>),
   listedValue |-> NULL, descriptionValue |-> NULL,
   estimatedCost |-> utils]

NoRegistration ==
  [type |-> "no_registration", severity |-> "medium",
   message |-> Msg("Registration (zameldowanie) not possible - may affect visa/residence permits",
                   <<>>),
   listedValue |-> NULL, descriptionValue |-> NULL,
   estimatedCost |-> NoUtilities]

\* if (descriptionAnalysis.hiddenDeposit && summary.depositPLN) { if (Math.abs(...) > ...) push }
DepositCheck(summary, descriptionAnalysis) ==
  IF /\ Truthy(descriptionAnalysis.hiddenDeposit)
     /\ Truthy(summary.depositPLN)
     /\ DepositsDiffer(descriptionAnalysis.hiddenDeposit, summary.depositPLN)
  THEN <<DepositMismatch(summary.depositPLN, descriptionAnalysis.hiddenDeposit)>>
  ELSE <<>>

\* The utilities check with the floor of 10 taken inclusively.
UtilitiesCheckFloorInclusive(summary, descriptionAnalysis) ==
  IF /\ descriptionAnalysis.hiddenUtilities # NoUtilities
     /\ (~Truthy(summary.adminPLN) \/ summary.adminPLN <= 10)
  THEN <<HiddenUtilitiesFound(descriptionAnalysis.hiddenUtilities)>>
  ELSE <<>>

\* if (descriptionAnalysis.hiddenUtilities && (!summary.adminPLN || summary.adminPLN < 10)) push
UtilitiesCheck(summary, descriptionAnalysis) ==
  IF /\ descriptionAnalysis.hiddenUtilities # NoUtilities
     /\ (~Truthy(summary.adminPLN) \/ summary.adminPLN < 10)
  THEN <<HiddenUtilitiesFound(descriptionAnalysis.hiddenUtilities)>>
  ELSE <<>>

\* The registration check with !registrationAllowed in place of === false.
RegistrationCheckFalsy(descriptionAnalysis) ==
  IF descriptionAnalysis.registrationAllowed # "true" THEN <<NoRegistration>> ELSE <<>>

\* if (descriptionAnalysis.registrationAllowed === false) push
RegistrationCheck(descriptionAnalysis) ==
  IF descriptionAnalysis.registrationAllowed = "false" THEN <<NoRegistration>> ELSE <<>>

detectInconsistencies(summary, descriptionAnalysis) ==
  DepositCheck(summary, descriptionAnalysis)
    \o UtilitiesCheck(summary, descriptionAnalysis)
    \o RegistrationCheck(descriptionAnalysis)

----------------------------------------------------------------------------
(* parseOtodom: the reconciled ("true") values and the summary             *)

\* const totalPLN = rentPLN && adminPLN ? rentPLN + adminPLN : rentPLN || null
TotalPLN(rentPLN, adminPLN) ==
  IF Truthy(rentPLN) /\ Truthy(adminPLN) THEN rentPLN + adminPLN
  ELSE OrElse(rentPLN, NULL)

\* const pricePerM2 = totalPLN && areaNum && areaNum > 0 ? Math.round(totalPLN / areaNum) : null
PricePerM2(totalPLN, areaNum) ==
  IF Truthy(totalPLN) /\ Truthy(areaNum) /\ areaNum > 0
  THEN RoundDiv(totalPLN, areaNum) ELSE NULL

\* A reconciliation that takes the description's deposit whenever there is one.
TrueDepositPrefersDescription(hiddenDeposit, depositPLN) ==
  IF Truthy(hiddenDeposit) THEN hiddenDeposit ELSE depositPLN

\* hiddenDeposit && hiddenDeposit > (depositPLN || 0) ? hiddenDeposit : depositPLN
TrueDepositPLN(hiddenDeposit, depositPLN) ==
  IF Truthy(hiddenDeposit) /\ hiddenDeposit > OrElse(depositPLN, 0)
  THEN hiddenDeposit ELSE depositPLN

\* A reconciliation that falls back on the utility estimate when the listing
\* has no admin fee.
TrueAdminFromUtilities(adminPLN, hiddenUtilities) ==
  IF Truthy(adminPLN) THEN adminPLN
  ELSE IF hiddenUtilities # NoUtilities THEN hiddenUtilities.avg ELSE NULL

\* const trueAdminPLN = adminPLN || null
\* (descriptionAnalysis.hiddenUtilities is in scope and not used)
TrueAdminPLN(adminPLN, hiddenUtilities) == OrElse(adminPLN, NULL)

\* A total that also adds the fees found in the description.
TrueTotalWithFees(rentPLN, adminPLN, additionalFeesTotal) ==
  IF Truthy(rentPLN) THEN rentPLN + OrElse(adminPLN, 0) + additionalFeesTotal ELSE NULL

\* const trueTotalPLN = rentPLN ? rentPLN + (adminPLN || 0) : null
\* (additionalFeesTotal is in scope and not used)
TrueTotalPLN(rentPLN, adminPLN, additionalFeesTotal) ==
  IF Truthy(rentPLN) THEN rentPLN + OrElse(adminPLN, 0) ELSE NULL

\* const summary = { ... }: the fields the engine fills or reads
BuildSummary(l, descEN, descriptionAnalysis) ==
  LET totalPLN == TotalPLN(l.rentPLN, l.adminPLN)
      additionalFeesTotal == OrElse(descriptionAnalysis.totalAdditionalFees, 0)
  IN  [rentPLN             |-> OrElse(l.rentPLN, NULL),
       adminPLN            |-> OrElse(l.adminPLN, NULL),
       depositPLN          |-> OrElse(l.depositPLN, NULL),
       totalPLN            |-> totalPLN,
       trueDepositPLN      |-> TrueDepositPLN(descriptionAnalysis.hiddenDeposit, l.depositPLN),
       trueAdminPLN        |-> TrueAdminPLN(l.adminPLN, descriptionAnalysis.hiddenUtilities),
       trueTotalPLN        |-> TrueTotalPLN(l.rentPLN, l.adminPLN, additionalFeesTotal),
       hiddenUtilities     |-> descriptionAnalysis.hiddenUtilities,
       additionalFees      |-> descriptionAnalysis.additionalFees,
       additionalFeesTotal |-> additionalFeesTotal,
       areaM2              |-> l.areaNum,
       availableFrom       |-> l.availableFrom,
       descriptionEN       |-> descEN,
       pricePerM2          |-> PricePerM2(totalPLN, l.areaNum)]

----------------------------------------------------------------------------
(* assessRisk                                                              *)

\* One scoring rule: when cond holds, points are added and the note pushed.
Rule(cond, points, note) ==
  IF cond THEN [score |-> points, notes |-> <<note>>] ELSE [score |-> 0, notes |-> <<>>]

\* A loop body that scores every inconsistency alike.
InconsistencyRuleFlat(inc) ==
  IF inc.severity = "high"
  THEN [score |-> 3, notes |-> <<Msg("(warning sign) " \o inc.message.text, inc.message.args)>>]
  ELSE [score |-> 3, notes |-> <<inc.message>>]

\* The body of the loop over the inconsistencies
InconsistencyRule(inc) ==
  IF inc.severity = "high"
  THEN [score |-> 3, notes |-> <<Msg("(warning sign) " \o inc.message.text, inc.message.args)>>]
  ELSE IF inc.severity = "medium"
       THEN [score |-> 2, notes |-> <<inc.message>>]
       ELSE [score |-> 0, notes |-> <<>>]

\* deposit > 2 * rent is exact in doubles for integers
HighDeposit(rent, deposit) == Truthy(rent) /\ Truthy(deposit) /\ deposit > 2 * rent

\* admin > 0.6 * rent: for an integer rent the double 0.6 * rent is exactly
\* 3 * rent / 5 when 5 divides rent and strictly between two integers
\* otherwise, so for integers the comparison is 5 * admin > 3 * rent.
HighAdmin(rent, admin) == Truthy(rent) /\ Truthy(admin) /\ 5 * admin > 3 * rent

\* A test that looks at the structured fee alone.
AdminUnsetStructured(admin, utils) == ~Truthy(admin)

\* if (!admin && !descriptionAnalysis.hiddenUtilities)
AdminUnset(admin, utils) == ~Truthy(admin) /\ utils = NoUtilities

\* A test that takes an empty description for no description at all and
\* lets it pass.
ShortDescriptionNonEmpty(descEN) == Len(descEN) # 0 /\ Len(descEN) < 200

\* !summary.descriptionEN || summary.descriptionEN.length < 200
ShortDescription(descEN) == Len(descEN) = 0 \/ Len(descEN) < 200

\* The rules of assessRisk, in the order the code applies them.
RiskRules(summary, descriptionAnalysis) ==
  LET rent    == summary.rentPLN
      admin   == summary.adminPLN
      deposit == summary.depositPLN
      ppm2    == summary.pricePerM2
      incs    == descriptionAnalysis.inconsistencies
  IN  [i \in 1..Len(incs) |-> InconsistencyRule(incs[i])] \o
      << Rule(HighDeposit(rent, deposit), 2,
              Msg("High deposit: more than 2x monthly rent.", <<>>)),
         Rule(HighAdmin(rent, admin), 1,
              Msg("Admin / utilities are high compared to base rent.", <<>>)),
         Rule(Truthy(ppm2) /\ ppm2 > 150, 2,
              Msg("Price per m2 seems high.", <<>>)),
         Rule(Truthy(ppm2) /\ ppm2 < 40, 2,
              Msg("Price per m2 seems very low - double-check for hidden costs.", <<>>)),
         Rule(AdminUnset(admin, descriptionAnalysis.hiddenUtilities), 1,
              Msg("Admin / utilities not specified.", <<>>)),
         Rule(~Truthy(deposit) /\ ~Truthy(descriptionAnalysis.hiddenDeposit), 1,
              Msg("Deposit not specified.", <<>>)),
         Rule(ShortDescription(summary.descriptionEN), 1,
              Msg("Description is short or vague.", <<>>)),
         Rule(summary.availableFrom = NoDate, 1,
              Msg("Availability date not specified.", <<>>)),
         Rule(descriptionAnalysis.notaryInfo.required, 1,
              Msg("Notary contract required (adds complexity).", <<>>)),
         Rule(descriptionAnalysis.registrationAllowed = "false", 2,
              Msg("Registration (zameldowanie) not possible.", <<>>)) >>

RECURSIVE SumScores(_)
SumScores(rules) ==
  IF rules = <<>> THEN 0 ELSE Head(rules).score + SumScores(Tail(rules))

RECURSIVE AllNotes(_)
AllNotes(rules) ==
  IF rules = <<>> THEN <<>> ELSE Head(rules).notes \o AllNotes(Tail(rules))

\* Thresholds taken exclusively.
RiskLevelStrict(riskScore) ==
  IF riskScore > 6 THEN "High" ELSE IF riskScore > 3 THEN "Medium" ELSE "Low"

\* let level = 'Low'; if (riskScore >= 6) level = 'High'; else if (riskScore >= 3) level = 'Medium'
RiskLevel(riskScore) ==
  IF riskScore >= 6 THEN "High" ELSE IF riskScore >= 3 THEN "Medium" ELSE "Low"

\* Math.max(40, 100 - riskScore * 5)
Confidence(riskScore) ==
  IF 100 - riskScore * 5 > 40 THEN 100 - riskScore * 5 ELSE 40

assessRisk(summary, descriptionAnalysis) ==
  With(RiskRules(summary, descriptionAnalysis), LAMBDA rules :
    With(SumScores(rules), LAMBDA riskScore :
      [level      |-> RiskLevel(riskScore),
       score      |-> riskScore,
       confidence |-> Confidence(riskScore),
       notes      |-> AllNotes(rules)]))


----------------------------------------------------------------------------
(* generateTrustBreakdown                                                  *)

\* JavaScript values of the passed field of a check: a boolean, a number or
\* null.
JsBoolean(b) == [type |-> "boolean", value |-> IF b THEN 1 ELSE 0]

\* x && y on numbers-or-null, as a JavaScript value: x when x is falsy, y
\* otherwise.
JsAnd(x, y) ==
  With(IF Truthy(x) THEN y ELSE x, LAMBDA v :
    IF v = NULL THEN [type |-> "null", value |-> 0] ELSE [type |-> "number", value |-> v])

\* if (v) ...
JsTruthy(v) == v.type # "null" /\ v.value # 0

Check(category, label, passed, detail) ==
  [category |-> category, label |-> label, passed |-> passed, detail |-> detail]

\* The checks in the order they are pushed, with the constants the code
\* computes for them:
\*   hasClearPricing = summary.rentPLN && summary.adminPLN (pushed as it is)
\*   hasDeposit = summary.depositPLN || descriptionAnalysis.hiddenDeposit
\*   hasPriceContradiction = inconsistencies.some(i => i.type === 'deposit_mismatch')
\*   hasGoodDescription = (summary.descriptionEN || '').length >= 200
\*   deposit = summary.trueDepositPLN || summary.depositPLN
\*   depositReasonable = !deposit || !rent || deposit <= (2 * rent)
\*   ppm2Reasonable = !ppm2 || (ppm2 >= 40 && ppm2 <= 150)
\* and the registration check when the flag is neither null nor undefined.
TrustChecks(summary, descriptionAnalysis) ==
  With([hasClearPricing |-> JsAnd(summary.rentPLN, summary.adminPLN),
        hasDeposit |-> Truthy(OrElse(summary.depositPLN, descriptionAnalysis.hiddenDeposit)),
        hasPriceContradiction |->
          \E i \in 1..Len(descriptionAnalysis.inconsistencies) :
            descriptionAnalysis.inconsistencies[i].type = "deposit_mismatch",
        hasGoodDescription |-> Len(summary.descriptionEN) >= 200,
        deposit |-> OrElse(summary.trueDepositPLN, summary.depositPLN),
        depositReasonable |->
          \/ ~Truthy(OrElse(summary.trueDepositPLN, summary.depositPLN))
          \/ ~Truthy(summary.rentPLN)
          \/ OrElse(summary.trueDepositPLN, summary.depositPLN) <= 2 * summary.rentPLN,
        ppm2 |-> summary.pricePerM2,
        ppm2Reasonable |->
          ~Truthy(summary.pricePerM2)
            \/ (summary.pricePerM2 >= 40 /\ summary.pricePerM2 <= 150)],
       LAMBDA v :
    << Check("pricing", "Clear pricing", v.hasClearPricing,
             IF JsTruthy(v.hasClearPricing) THEN Msg("Rent and admin fees clearly stated", <<>>)
             ELSE IF Truthy(summary.rentPLN) THEN Msg("Admin/utilities not specified", <<>>)
                  ELSE Msg("Price information incomplete", <<>>)),
       Check("pricing", "Deposit specified", JsBoolean(v.hasDeposit),
             IF v.hasDeposit THEN Msg("Deposit amount is known", <<>>)
             ELSE Msg("No deposit information found", <<>>)),
       Check("consistency", "Prices match", JsBoolean(~v.hasPriceContradiction),
             IF ~v.hasPriceContradiction THEN Msg("Listed prices match description", <<>>)
             ELSE Msg("Deposit mismatch between listing and description", <<>>)),
       Check("detail", "Detailed description", JsBoolean(v.hasGoodDescription),
             IF v.hasGoodDescription THEN Msg("Comprehensive listing description", <<>>)
             ELSE Msg("Description is short or vague", <<>>)),
       Check("detail", "Availability date", JsBoolean(summary.availableFrom # NoDate),
             IF summary.availableFrom # NoDate THEN Msg("Move-in date specified", <<>>)
             ELSE Msg("No availability date given", <<>>)),
       Check("pricing", "Reasonable deposit", JsBoolean(v.depositReasonable),
             IF v.depositReasonable
             THEN (IF Truthy(v.deposit) THEN Msg("Deposit within normal range", <<>>)
                   ELSE Msg("N/A", <<>>))
             ELSE Msg("Deposit exceeds 2x monthly rent", <<>>)),
       Check("pricing", "Price per m^2 check", JsBoolean(v.ppm2Reasonable),
             IF v.ppm2Reasonable
             THEN (IF Truthy(v.ppm2) THEN Msg("%1 PLN/m^2 is within typical range", <<v.ppm2>>)
                   ELSE Msg("Cannot calculate", <<>>))
             ELSE IF v.ppm2 < 40
                  THEN Msg("%1 PLN/m^2 is unusually low - verify details", <<v.ppm2>>)
                  ELSE Msg("%1 PLN/m^2 is on the higher end", <<v.ppm2>>)) >>
      \o (IF descriptionAnalysis.registrationAllowed = "null" THEN <<>>
          ELSE << Check("legal", "Registration allowed",
                        JsBoolean(descriptionAnalysis.registrationAllowed = "true"),
                        IF descriptionAnalysis.registrationAllowed = "true"
                        THEN Msg("Zameldowanie possible", <<>>)
                        ELSE Msg("No zameldowanie - may affect visa", <<>>)) >>))

\* Bands with the bounds taken inclusively.
TrustLevelInclusive(trustPercentage) ==
  IF trustPercentage <= 50 THEN "low"
  ELSE IF trustPercentage <= 75 THEN "medium" ELSE "high"

\* let trustLevel = 'high'; if (trustPercentage < 50) ... else if (trustPercentage < 75) ...
TrustLevel(trustPercentage) ==
  IF trustPercentage < 50 THEN "low"
  ELSE IF trustPercentage < 75 THEN "medium" ELSE "high"

\* trustPercentage = Math.round((passedCount / totalCount) * 100): the
\* quotients with a denominator of 7 or 8 that end in .5 are exact in doubles.
generateTrustBreakdown(summary, descriptionAnalysis) ==
  With(TrustChecks(summary, descriptionAnalysis), LAMBDA checks :
    With([passedCount |-> Cardinality({i \in 1..Len(checks) : JsTruthy(checks[i].passed)}),
          totalCount  |-> Len(checks)], LAMBDA n :
      With(RoundDiv(100 * n.passedCount, n.totalCount), LAMBDA trustPercentage :
        [checks     |-> checks,
         passed     |-> n.passedCount,
         total      |-> n.totalCount,
         percentage |-> trustPercentage,
         level      |-> TrustLevel(trustPercentage)])))

----------------------------------------------------------------------------
(* Listings: the inputs of one request                                     *)

\* Sentences a listing description is made of, as stripHtml leaves them
\* (single blanks, no markup).
SentDeposit(n)     == <<"K","a","u","c","j","a"," ">> \o NumToChars(n) \o <<" ","z","l_">>
SentNoRegistration == <<"B","e","z"," ","z","a","m","e","l","d","o","w","a","n","i","a">>
SentRegistrationOk == <<"Z","a","m","e","l","d","o","w","a","n","i","e"," ","m","o","z_","l","i","w","e">>
SentUtilities      == <<"M","e","d","i","a"," ","o","k","."," ","1","0","0","-","1","5","0"," ","z","l_"," ","n","a"," ","o","s","o","b","e_"," ","m","i","e","s","i","e_","c","z","n","i","e">>
SentNotary         == <<"U","m","o","w","a"," ","u"," ","n","o","t","a","r","i","u","s","z","a">>
SentInternet       == <<"I","n","t","e","r","n","e","t"," ","6","0"," ","z","l_">>
SentParking        == <<"P","a","r","k","i","n","g"," ","2","0","0"," ","z","l_">>
SentLong           == [i \in 1..200 |-> "x"]

\* What the translation service may answer for a non-empty description.
Translations == { <<"W","i","t","h","o","u","t"," ","r","e","g","i","s","t","r","a","t","i","o","n","."," ","D","e","p","o","s","i","t",":"," ","4","5","0","0"," ","P","L","N",","," ","r","e","f","u","n","d","a","b","l","e",".">> }

MaxSentences == 2

RECURSIVE JoinSentences(_, _, _)
\* The sentences whose index is in pick, in order, joined by ". "
JoinSentences(sentences, pick, i) ==
  IF i > Len(sentences) THEN <<>>
  ELSE With(JoinSentences(sentences, pick, i + 1), LAMBDA rest :
         IF i \notin pick THEN rest
         ELSE IF rest = <<>> THEN sentences[i]
              ELSE sentences[i] \o <<".", " ">> \o rest)

Descriptions(sentences) ==
  With(sentences, LAMBDA all :
    { JoinSentences(all, pick, 1) :
        pick \in {p \in SUBSET (1..Len(all)) : Cardinality(p) <= MaxSentences} })

\* The Polish descriptions of the listings
ListingDescriptions ==
  Descriptions(<< SentDeposit(4500), SentNoRegistration, SentRegistrationOk,
                  SentUtilities, SentNotary, SentInternet, SentParking,
                  SentLong >>)

\* Sentences about utilities, fees, the advertiser, the contract and meters
Sentence ==
  [ utilitiesHigh      |-> <<"M","e","d","i","a"," ","o","k","."," ","6","0","0"," ","z","l_"," ","n","a"," ","o","s","o","b","e_">>,
    utilitiesSingle    |-> <<"M","e","d","i","a"," ","o","k","."," ","1","2","0"," ","z","l_"," ","n","a"," ","o","s","o","b","e_">>,
    utilitiesLowHigh   |-> <<"M","e","d","i","a"," ","o","k","."," ","4","0","-","9","0"," ","z","l_"," ","n","a"," ","o","s","o","b","e_">>,
    utilitiesOdd       |-> <<"M","e","d","i","a"," ","o","k","."," ","1","0","0","-","1","5","1"," ","z","l_"," ","n","a"," ","o","s","o","b","e_">>,
    busInternet        |-> <<"I","n","t","e","r","n","e","t"," ","l","i","n","i","a"," ","1","5","0"," ","z","l_">>,
    busBefore          |-> <<"L","i","n","i","a"," ","1","5","0"," ","z","l_"," ","i","n","t","e","r","n","e","t">>,
    flat               |-> <<"K","u","c","h","n","i","a"," ","z"," ","o","k","n","e","m",","," ","l_","a","z","i","e","n","k","a"," ","z"," ","w","a","n","n","a_",","," ","d","u","z_","y"," ","b","a","l","k","o","n"," ","i"," ","p","i","w","n","i","c","a"," ","w"," ","c","e","n","i","e">>,
    internetHigh       |-> <<"I","n","t","e","r","n","e","t"," ","3","0","0"," ","z","l_">>,
    tv                 |-> <<"T","V"," ","5","0"," ","z","l_">>,
    tvLow              |-> <<"T","V"," ","2","0"," ","z","l_">>,
    parkingHigh        |-> <<"P","a","r","k","i","n","g"," ","6","0","0"," ","z","l_">>,
    combo              |-> <<"I","n","t","e","r","n","e","t"," ","+"," ","T","V"," ","1","2","0"," ","z","l_">>,
    comboHigh          |-> <<"I","n","t","e","r","n","e","t"," ","+"," ","T","V"," ","3","0","0"," ","z","l_">>,
    agency             |-> <<"B","i","u","r","o"," ","n","i","e","r","u","c","h","o","m","o","s_","c","i">>,
    private            |-> <<"O","f","e","r","t","a"," ","p","r","y","w","a","t","n","a">>,
    agencyNoCommission |-> <<"B","i","u","r","o",","," ","b","e","z"," ","p","r","o","w","i","z","j","i">>,
    noCommission       |-> <<"N","o"," ","c","o","m","m","i","s","s","i","o","n">>,
    contract           |-> <<"N","a","j","e","m"," ","1","2"," ","m","i","e","s","i","e_","c","y",","," ","u","m","o","w","a"," ","p","i","s","e","m","n","a">>,
    metered            |-> <<"P","r","a_","d"," ","w","e","d","l_","u","g"," ","l","i","c","z","n","i","k","a">>,
    utilitiesReversed  |-> <<"M","e","d","i","a"," ","o","k","."," ","1","5","0","-","1","0","0"," ","z","l_"," ","n","a"," ","o","s","o","b","e_">>,
    contractLong       |-> <<"4","8"," ","m","i","e","s","i","e_","c","y"," ","u","m","o","w","a","."," ","1","2"," ","m","i","e","s","i","e_","c","y"," ","u","m","o","w","a">>,
    depositFloor       |-> <<"K","a","u","c","j","a"," ","5","0","0"," ","z","l_">>,
    depositCeiling     |-> <<"K","a","u","c","j","a"," ","5","0","0","0","0"," ","z","l_">>,
    depositSecond      |-> <<"K","a","u","c","j","a"," ","4","0","0"," ","z","l_","."," ","K","a","u","c","j","a"," ","3","0","0","0"," ","z","l_">>,
    depositOrder       |-> <<"Z","w","r","o","t","n","a"," ","2","0","0","0"," ","z","l_","."," ","K","a","u","c","j","a"," ","3","0","0","0"," ","z","l_">>,
    comboMax           |-> <<"I","n","t","e","r","n","e","t"," ","+"," ","T","V"," ","2","5","0"," ","z","l_">>,
    parkingMax         |-> <<"P","a","r","k","i","n","g"," ","5","0","0"," ","z","l_">>,
    noAgent            |-> <<"B","e","z"," ","p","o","s_","r","e","d","n","i","k","o_","w">> ]

\* Two sentences of a description
Two(first, second) == first \o <<".", " ">> \o second

\* The Polish descriptions of the listings that exercise the extraction
ExtractDescriptions ==
  { <<>>, SentUtilities, Sentence.utilitiesHigh, Sentence.utilitiesSingle, Sentence.utilitiesLowHigh,
    Sentence.utilitiesOdd, Sentence.busInternet, Sentence.busBefore, SentInternet, Sentence.internetHigh,
    Sentence.tv, Sentence.tvLow, SentParking, Sentence.parkingHigh, Sentence.combo, Sentence.comboHigh,
    Sentence.agency, Sentence.private, Sentence.agencyNoCommission, Sentence.noCommission,
    Sentence.contract, Sentence.metered,
    Two(Sentence.busInternet, Sentence.flat), Two(SentInternet, Sentence.tv), Two(Sentence.tv, Sentence.combo),
    Two(Sentence.combo, SentParking), Two(Sentence.tv, SentParking), Two(Sentence.private, Sentence.agency),
    Sentence.utilitiesReversed, Sentence.contractLong, Sentence.depositFloor, Sentence.depositCeiling,
    Sentence.depositSecond, Sentence.depositOrder, Two(Sentence.comboMax, Sentence.parkingMax),
    Sentence.noAgent }

\* The descriptions of the listings that are requested more than once
RepeatedDescriptions == { <<>>, SentInternet, Sentence.contract, Sentence.metered }

\* text.trim() is empty
IsBlank(text) == \A i \in 1..Len(text) : text[i] \in Spaces

\* translateToEnglish: '' for a blank text; otherwise the service's answer,
\* or the text itself when there is no key, no answer or an error.
TranslationsOf(text) ==
  IF IsBlank(text) THEN {<<>>} ELSE {text} \cup Translations

\* The listings of the end-to-end specification.
Listings ==
  [rentPLN       : {NULL, 1000, 3000},
   adminPLN      : {NULL, 0, 9, 10, 700},
   depositPLN    : {NULL, 0, 3000, 3749, 3750, 5626},
   areaNum       : {NULL, 20, 26},
   availableFrom : {NoDate, "2025-01-01"},
   descriptionPL : ListingDescriptions]

\* Listings with one set of structured fields but for the administrative
\* fee, and the descriptions that exercise the extraction.
ExtractListings ==
  [rentPLN       : {3000},
   adminPLN      : {NULL, 700},
   depositPLN    : {NULL},
   areaNum       : {NULL},
   availableFrom : {NoDate},
   descriptionPL : ExtractDescriptions]

\* The listings that are requested more than once.
RepeatedListings ==
  [rentPLN       : {3000},
   adminPLN      : {NULL, 700},
   depositPLN    : {NULL},
   areaNum       : {NULL},
   availableFrom : {NoDate},
   descriptionPL : RepeatedDescriptions]

\* Every (description, translation) the listings give rise to
DescriptionPairs ==
  UNION { { <<pl, en>> : en \in TranslationsOf(pl) } :
          pl \in ListingDescriptions \cup ExtractDescriptions \cup RepeatedDescriptions }

\* The body of parseDescriptionForHiddenInfo tabulated over those pairs, for
\* newly created RegExp objects
DescriptionAnalyses ==
  { <<p[1], p[2], Parse(p[1], p[2], FreshRegExps)>> : p \in DescriptionPairs }

\* parseDescriptionForHiddenInfo(descriptionPL, descriptionEN), read off the
\* table when the call's RegExp objects are new
AnalysisOf(descriptionPL, descEN, left) ==
  IF NewRegExps(left) = FreshRegExps
  THEN (CHOOSE t \in DescriptionAnalyses : t[1] = descriptionPL /\ t[2] = descEN)[3]
  ELSE parseDescriptionForHiddenInfo(descriptionPL, descEN, left)

----------------------------------------------------------------------------
(* The request pipeline                                                    *)

VARIABLES
  pc,                   \* where parseOtodom stands: "idle", "translating", "enriching", "done"
  listing,              \* the structured fields and the Polish description
  descriptionEN,        \* what translateToEnglish returned
  descriptionAnalysis,  \* parseDescriptionForHiddenInfo's result, with the inconsistencies
  summary,              \* the summary object
  risk,                 \* assessRisk's result
  trustBreakdown,       \* generateTrustBreakdown's result
  regExpState,          \* lastIndex of the RegExp objects the last call of
                        \* parseDescriptionForHiddenInfo created
  earlier,              \* an earlier request and the answer it got
  commute,              \* calculateFullCommute: its position, the lookups in flight
                        \* and settled, the order they settled in, its result
  places                \* discoverNearbyPlaces: its position, the loop index, the
                        \* searches in flight, each category's search count and
                        \* outcome, the results object, its result

vars == <<pc, listing, descriptionEN, descriptionAnalysis, summary, risk,
          trustBreakdown, regExpState, earlier, commute, places>>

NoListing ==
  [rentPLN |-> NULL, adminPLN |-> NULL, depositPLN |-> NULL, areaNum |-> NULL,
   availableFrom |-> NoDate, descriptionPL |-> <<>>]

NoAnalysis ==
  [inconsistencies |-> <<>>, importantNotes |-> <<>>, hiddenDeposit |-> NULL,
   hiddenUtilities |-> NoUtilities, contractTerms |-> NoContract,
   notaryInfo |-> NoNotary, registrationAllowed |-> "null", advertiserType |-> "null",
   additionalFees |-> <<>>, hasMeteredFees |-> FALSE, meteredFeeTypes |-> <<>>,
   totalAdditionalFees |-> 0]

NoSummary == BuildSummary(NoListing, <<>>, NoAnalysis)

NoRisk == [level |-> "Low", score |-> 0, confidence |-> 100, notes |-> <<>>]

NoTrust == [checks |-> <<>>, passed |-> 0, total |-> 0, percentage |-> 0, level |-> "high"]

\* What is kept of a request to compare a later one with
NoAnswer ==
  [listing |-> NoListing, descriptionEN |-> <<>>, descriptionAnalysis |-> NoAnalysis,
   summary |-> NoSummary, risk |-> NoRisk, trustBreakdown |-> NoTrust]

\* calculateFullCommute returned null
NoCommute ==
  [distanceKm |-> NULL, transitMinutes |-> NULL, drivingMinutes |-> NULL,
   bicyclingMinutes |-> NULL, walkingMinutes |-> NULL, durationMinutes |-> NULL]

\* How many entries of the categories array, of its 26, the model searches
MaxCategories == 7

Init ==
  /\ pc = "idle"
  /\ listing = NoListing
  /\ descriptionEN = <<>>
  /\ descriptionAnalysis = NoAnalysis
  /\ summary = NoSummary
  /\ risk = NoRisk
  /\ trustBreakdown = NoTrust
  /\ regExpState = FreshRegExps
  /\ earlier = NoAnswer
  /\ commute = [pc |-> "idle", inFlight |-> {}, lookups |-> <<>>, settled |-> <<>>,
                result |-> NoCommute]
  /\ places = [pc |-> "idle", i |-> 0, inFlight |-> {},
               searches |-> [c \in 1..MaxCategories |-> 0],
               outcome |-> [c \in 1..MaxCategories |-> "none yet"],
               results |-> {}, result |-> [ok |-> FALSE, places |-> {}]]

\* A request arrives: parseOtodom reads the structured data and asks for
\* the translation.  Nothing of an earlier request is kept.
Receive(from) ==
  /\ pc = "idle"
  /\ \E l \in from : listing' = l
  /\ pc' = "translating"
  /\ descriptionEN' = <<>>
  /\ descriptionAnalysis' = NoAnalysis
  /\ summary' = NoSummary
  /\ risk' = NoRisk
  /\ trustBreakdown' = NoTrust
  /\ UNCHANGED <<regExpState, earlier, commute, places>>

\* The translation is back: the description is mined and compared with the
\* structured fields.
Analyse ==
  /\ pc = "translating"
  /\ \E en \in TranslationsOf(listing.descriptionPL) :
       /\ descriptionEN' = en
       /\ \E call \in {AnalysisOf(listing.descriptionPL, en, regExpState)} :
            /\ descriptionAnalysis' =
                 [call.result EXCEPT !.inconsistencies =
                    detectInconsistencies([depositPLN |-> listing.depositPLN,
                                           adminPLN   |-> listing.adminPLN,
                                           rentPLN    |-> listing.rentPLN], call.result)]
            /\ regExpState' = call.regExps
  /\ pc' = "enriching"
  /\ UNCHANGED <<listing, summary, risk, trustBreakdown, earlier, commute, places>>

\* Commute and places are back: the summary is assembled and scored.
Summarize ==
  /\ pc = "enriching"
  /\ summary' = BuildSummary(listing, descriptionEN, descriptionAnalysis)
  /\ risk' = assessRisk(summary', descriptionAnalysis)
  /\ trustBreakdown' = generateTrustBreakdown(summary', descriptionAnalysis)
  /\ pc' = "done"
  /\ UNCHANGED <<listing, descriptionEN, descriptionAnalysis, regExpState, earlier, commute, places>>

\* return summary: the request is answered and nothing of it is kept.
Respond ==
  /\ pc = "done"
  /\ pc' = "idle"
  /\ listing' = NoListing
  /\ descriptionEN' = <<>>
  /\ descriptionAnalysis' = NoAnalysis
  /\ summary' = NoSummary
  /\ risk' = NoRisk
  /\ trustBreakdown' = NoTrust
  /\ UNCHANGED <<regExpState, earlier, commute, places>>

Next == Receive(Listings) \/ Analyse \/ Summarize \/ Respond

Spec == Init /\ [][Next]_vars

\* The same pipeline over the listings that exercise the extraction.
ExtractSpec ==
  Init /\ [][Receive(ExtractListings) \/ Analyse \/ Summarize \/ Respond]_vars

\* The answer to a request is remembered, to be compared with the answer to
\* a later request.
Observe ==
  /\ pc = "done"
  /\ earlier' = [listing |-> listing, descriptionEN |-> descriptionEN,
                 descriptionAnalysis |-> descriptionAnalysis, summary |-> summary,
                 risk |-> risk, trustBreakdown |-> trustBreakdown]
  /\ UNCHANGED <<pc, listing, descriptionEN, descriptionAnalysis, summary, risk,
                 trustBreakdown, regExpState, commute, places>>

\* The pipeline serving requests one after another, some of them repeated.
RepeatSpec ==
  Init /\ [][Receive(RepeatedListings) \/ Analyse \/ Summarize \/ Observe \/ Respond]_vars

----------------------------------------------------------------------------
(* The reconciliation of the administrative fee in earlier revisions       *)

\* const totalPLN = rentPLN && adminPLN ? rentPLN + adminPLN : rentPLN || null
EarlierTotalPLN(rentPLN, adminPLN) ==
  IF Truthy(rentPLN) /\ Truthy(adminPLN) THEN rentPLN + adminPLN
  ELSE OrElse(rentPLN, NULL)

\* src/server.js: trueAdminPLN = descriptionAnalysis.hiddenUtilities
\*   ? descriptionAnalysis.hiddenUtilities.avg : adminPLN;
\* trueTotalPLN = rentPLN ? rentPLN + (trueAdminPLN || 0) : null
ServerTrueValues(rentPLN, adminPLN, utils) ==
  With(IF utils # NoUtilities THEN utils.avg ELSE adminPLN, LAMBDA trueAdminPLN :
    [trueAdminPLN |-> trueAdminPLN,
     trueTotalPLN |-> IF Truthy(rentPLN) THEN rentPLN + OrElse(trueAdminPLN, 0)
                      ELSE NULL])

\* src/unnamed/part_002: let trueTotalPLN = totalPLN; let trueAdminPLN = adminPLN;
\* if (hiddenUtilities) { avgUtility = Math.round((min + max) / 2);
\*   if (!adminPLN || adminPLN < 10) { trueAdminPLN = avgUtility;
\*     trueTotalPLN = rentPLN ? rentPLN + avgUtility : null } }
Part002TrueValues(rentPLN, adminPLN, utils) ==
  IF utils # NoUtilities /\ (~Truthy(adminPLN) \/ adminPLN < 10)
  THEN With(RoundDiv(utils.min + utils.max, 2), LAMBDA avgUtility :
         [trueAdminPLN |-> avgUtility,
          trueTotalPLN |-> IF Truthy(rentPLN) THEN rentPLN + avgUtility ELSE NULL])
  ELSE [trueAdminPLN |-> adminPLN,
        trueTotalPLN |-> EarlierTotalPLN(rentPLN, adminPLN)]

\* The monetary fields of the summary object of both revisions
EarlierSummary(l, utils, values) ==
  [NoSummary EXCEPT !.rentPLN         = OrElse(l.rentPLN, NULL),
                    !.adminPLN        = OrElse(l.adminPLN, NULL),
                    !.totalPLN        = EarlierTotalPLN(l.rentPLN, l.adminPLN),
                    !.trueAdminPLN    = values.trueAdminPLN,
                    !.trueTotalPLN    = values.trueTotalPLN,
                    !.hiddenUtilities = utils]

\* The structured fields of the listings these revisions are asked for
EarlierListings ==
  [rentPLN       : {NULL, 1000, 3000},
   adminPLN      : {NULL, 0, 9, 10, 700},
   depositPLN    : {NULL},
   areaNum       : {NULL},
   availableFrom : {NoDate},
   descriptionPL : {<<>>}]

\* What the parser of these revisions hands to the reconciliation: no
\* estimate, or the least and the greatest utility amount it accepted.  The
\* descriptions themselves are left out.
EarlierEstimates ==
  { NoUtilities,
    [min |-> 100, max |-> 150, avg |-> 125],
    [min |-> 120, max |-> 120, avg |-> 120],
    [min |-> 600, max |-> 600, avg |-> 600] }

\* The description has been parsed.
EarlierAnalyse ==
  /\ pc = "translating"
  /\ \E utils \in EarlierEstimates :
       descriptionAnalysis' = [NoAnalysis EXCEPT !.hiddenUtilities = utils]
  /\ pc' = "enriching"
  /\ UNCHANGED <<listing, descriptionEN, summary, risk, trustBreakdown, regExpState,
                 earlier, commute, places>>

\* The true values as src/server.js computes them
ServerSummarize ==
  /\ pc = "enriching"
  /\ summary' = EarlierSummary(listing, descriptionAnalysis.hiddenUtilities,
                   ServerTrueValues(listing.rentPLN, listing.adminPLN,
                                    descriptionAnalysis.hiddenUtilities))
  /\ pc' = "done"
  /\ UNCHANGED <<listing, descriptionEN, descriptionAnalysis, risk, trustBreakdown,
                 regExpState, earlier, commute, places>>

\* The true values as src/unnamed/part_002 computes them
Part002Summarize ==
  /\ pc = "enriching"
  /\ summary' = EarlierSummary(listing, descriptionAnalysis.hiddenUtilities,
                   Part002TrueValues(listing.rentPLN, listing.adminPLN,
                                     descriptionAnalysis.hiddenUtilities))
  /\ pc' = "done"
  /\ UNCHANGED <<listing, descriptionEN, descriptionAnalysis, risk, trustBreakdown,
                 regExpState, earlier, commute, places>>

EarlierSpec ==
  Init /\ [][Receive(EarlierListings) \/ EarlierAnalyse \/ ServerSummarize
               \/ Part002Summarize \/ Respond]_vars

----------------------------------------------------------------------------
(* calculateFullCommute: four lookups joined by Promise.all                *)

\* What calculateCommuteForMode may resolve to for the mode at index m of
\* the array handed to Promise.all (transit, driving, bicycling, walking): null
\* (an error, a timeout, a status other than OK) or the distance and the
\* duration of the element; a duration below 30 seconds rounds to 0 minutes.
\* It never rejects.  The texts go with the numbers and are left out.
calculateCommuteForMode(m) ==
  { [ok |-> FALSE, distanceKm |-> NULL, durationMinutes |-> NULL] }
    \cup { [ok |-> TRUE, distanceKm |-> 4 + m, durationMinutes |-> minutes] :
             minutes \in {0, 10 * m} }

\* A primary mode that prefers driving to transit.
calculateFullCommuteDrivingFirst(lookups) ==
  With(IF lookups[2].ok THEN lookups[2]
       ELSE IF lookups[1].ok THEN lookups[1]
       ELSE IF lookups[3].ok THEN lookups[3] ELSE lookups[4], LAMBDA primary :
    IF ~primary.ok THEN NoCommute
    ELSE [distanceKm       |-> primary.distanceKm,
          transitMinutes   |-> OrElse(lookups[1].durationMinutes, NULL),
          drivingMinutes   |-> OrElse(lookups[2].durationMinutes, NULL),
          bicyclingMinutes |-> OrElse(lookups[3].durationMinutes, NULL),
          walkingMinutes   |-> OrElse(lookups[4].durationMinutes, NULL),
          durationMinutes  |-> OrElse(lookups[1].durationMinutes,
                                     OrElse(lookups[2].durationMinutes, NULL))])

\* const primary = transit || driving || bicycling || walking;
\* if (!primary) return null; return { distanceKm: primary.distanceKm, ...,
\* transitMinutes: transit?.durationMinutes || null, ... }; the
\* durationMinutes of a lookup that failed is NULL.
calculateFullCommute(lookups) ==
  With(IF lookups[1].ok THEN lookups[1]
       ELSE IF lookups[2].ok THEN lookups[2]
       ELSE IF lookups[3].ok THEN lookups[3] ELSE lookups[4], LAMBDA primary :
    IF ~primary.ok THEN NoCommute
    ELSE [distanceKm       |-> primary.distanceKm,
          transitMinutes   |-> OrElse(lookups[1].durationMinutes, NULL),
          drivingMinutes   |-> OrElse(lookups[2].durationMinutes, NULL),
          bicyclingMinutes |-> OrElse(lookups[3].durationMinutes, NULL),
          walkingMinutes   |-> OrElse(lookups[4].durationMinutes, NULL),
          durationMinutes  |-> OrElse(lookups[1].durationMinutes,
                                     OrElse(lookups[2].durationMinutes, NULL))])

\* calculateFullCommute is called, the API key being configured: without an
\* address it returns null; otherwise the four calls of
\* calculateCommuteForMode each run up to their request, and the function
\* waits for Promise.all.
StartCommute ==
  /\ commute.pc = "idle"
  /\ \E addresses \in BOOLEAN :
       commute' = IF addresses
                  THEN [commute EXCEPT !.pc = "waiting",
                                       !.inFlight = 1..4]
                  ELSE [commute EXCEPT !.pc = "done", !.result = NoCommute]
  /\ UNCHANGED <<pc, listing, descriptionEN, descriptionAnalysis, summary, risk,
                 trustBreakdown, regExpState, earlier, places>>

\* The answer to one request arrives, or its error or timeout; the lookup
\* resolves.
LookupSettles ==
  /\ commute.pc = "waiting"
  /\ \E m \in commute.inFlight : \E lookup \in calculateCommuteForMode(m) :
       commute' = [commute EXCEPT !.inFlight = @ \ {m},
                                  !.lookups = @ @@ (m :> lookup),
                                  !.settled = Append(@, m)]
  /\ UNCHANGED <<pc, listing, descriptionEN, descriptionAnalysis, summary, risk,
                 trustBreakdown, regExpState, earlier, places>>

\* Promise.all resolves with the four values in the order of the array, and
\* the function returns.
ResolveCommute ==
  /\ commute.pc = "waiting"
  /\ commute.inFlight = {}
  /\ commute' = [commute EXCEPT !.pc = "done", !.result = calculateFullCommute(commute.lookups)]
  /\ UNCHANGED <<pc, listing, descriptionEN, descriptionAnalysis, summary, risk,
                 trustBreakdown, regExpState, earlier, places>>

CommuteSpec == Init /\ [][StartCommute \/ LookupSettles \/ ResolveCommute]_vars

----------------------------------------------------------------------------
(* discoverNearbyPlaces: the searches in batches                           *)

\* const batchSize = 5
batchSize == 5

\* A slice one entry too long.
batchOverlapping(i) == { c \in 1..MaxCategories : i < c /\ c <= i + batchSize + 1 }

\* categories.slice(i, i + batchSize), as the positions of its entries
batch(i) == { c \in 1..MaxCategories : i < c /\ c <= i + batchSize }

\* discoverNearbyPlaces is called with an address, the API key being
\* configured, and geocodeAddress has answered: without coordinates the
\* function returns null, with them it enters the loop.
StartDiscover ==
  /\ places.pc = "idle"
  /\ \E coords \in BOOLEAN :
       places' = IF coords THEN [places EXCEPT !.pc = "loop"]
                 ELSE [places EXCEPT !.pc = "done",
                                     !.result = [ok |-> FALSE, places |-> {}]]
  /\ UNCHANGED <<pc, listing, descriptionEN, descriptionAnalysis, summary, risk,
                 trustBreakdown, regExpState, earlier, commute>>

\* The loop body up to its await: batch.map calls searchNearbyPlace for
\* every category of the slice, each call running up to its request.
StartBatch ==
  /\ places.pc = "loop"
  /\ places' = [places EXCEPT
       !.pc       = "searching",
       !.inFlight = @ \cup batch(places.i),
       !.searches = [c \in 1..MaxCategories |->
                       IF c \in batch(places.i) THEN @[c] + 1 ELSE @[c]]]
  /\ UNCHANGED <<pc, listing, descriptionEN, descriptionAnalysis, summary, risk,
                 trustBreakdown, regExpState, earlier, commute>>

\* searchNearbyPlace resolves: with the closest place, with the entry that
\* says none was found, or with null after an error or a timeout.
SearchSettles ==
  /\ places.inFlight # {}
  /\ \E c \in places.inFlight : \E answer \in {"found", "none", "null"} :
       places' = [places EXCEPT !.inFlight = @ \ {c}, !.outcome[c] = answer]
  /\ UNCHANGED <<pc, listing, descriptionEN, descriptionAnalysis, summary, risk,
                 trustBreakdown, regExpState, earlier, commute>>

\* Promise.all resolves: batchResults.forEach stores every result that is
\* not null under its type; then the pause before the next batch, or the
\* end of the loop and the return.
CollectBatch ==
  /\ places.pc = "searching"
  /\ places.inFlight = {}
  /\ \E results \in { places.results
                        \cup { c \in batch(places.i) : places.outcome[c] # "null" } } :
       places' = IF places.i + batchSize < MaxCategories
                 THEN [places EXCEPT !.pc = "loop", !.i = @ + batchSize,
                                     !.results = results]
                 ELSE [places EXCEPT !.pc = "done", !.results = results,
                                     !.result = [ok |-> TRUE, places |-> results]]
  /\ UNCHANGED <<pc, listing, descriptionEN, descriptionAnalysis, summary, risk,
                 trustBreakdown, regExpState, earlier, commute>>

PlacesSpec ==
  Init /\ [][StartDiscover \/ StartBatch \/ SearchSettles \/ CollectBatch]_vars

----------------------------------------------------------------------------
(* Properties                                                              *)

\* The description has been mined and compared with the structured fields.
Analysed == pc \in {"enriching", "done"}

\* The summary has been assembled and scored.
Done == pc = "done"

\* A structured amount is an optional positive integer.
Present(amount) == amount # NULL /\ amount > 0

OfType(type) ==
  SelectSeq(descriptionAnalysis.inconsistencies, LAMBDA inc : inc.type = type)

OfSeverity(severity) ==
  SelectSeq(descriptionAnalysis.inconsistencies, LAMBDA inc : inc.severity = severity)

\* C1: a deposit_mismatch inconsistency (severity high) is emitted if and only
\* if the structured deposit D and the extracted deposit E are both present
\* and |E - D| > 0.2 * D, i.e. 5 * |E - D| > D; at exactly 20% none is
\* emitted, and E above D is treated as E below D.
C1_DepositMismatch ==
  Analysed =>
    LET D  == listing.depositPLN
        E  == descriptionAnalysis.hiddenDeposit
        ms == OfType("deposit_mismatch")
    IN  /\ Len(ms) <= 1
        /\ Len(ms) = 1 <=>
             /\ Present(D)
             /\ E # NULL
             /\ \/ 5 * (E - D) > D
                \/ 5 * (D - E) > D
        /\ \A i \in 1..Len(ms) : ms[i].severity = "high"

\* C1 witness: an extracted deposit more than 20% below the structured one is flagged.
C1_Witness ==
  /\ Analysed
  /\ Present(listing.depositPLN)
  /\ descriptionAnalysis.hiddenDeposit # NULL
  /\ descriptionAnalysis.hiddenDeposit < listing.depositPLN
  /\ Len(OfType("deposit_mismatch")) = 1

\* C2: trueDepositPLN is the extracted deposit exactly when that deposit is
\* present and strictly greater than the structured deposit (absent counting
\* as 0), and the structured deposit in every other case.
C2_TrueDeposit ==
  Done =>
    LET D    == listing.depositPLN
        E    == descriptionAnalysis.hiddenDeposit
        base == IF D = NULL THEN 0 ELSE D
    IN  summary.trueDepositPLN = IF E # NULL /\ E > base THEN E ELSE D

\* C2 witness: the description names a lower deposit than the listing, and
\* the listing's deposit stands.
C2_Witness ==
  /\ Done
  /\ descriptionAnalysis.hiddenDeposit = 4500
  /\ listing.depositPLN = 5626
  /\ summary.trueDepositPLN = 5626

\* C3: trueTotalPLN is rent plus the structured admin fee (0 when absent),
\* null when rent is absent; the fees found in the description are summed
\* into additionalFeesTotal only, so trueTotalPLN is the same with and
\* without them.
C3_TrueTotal ==
  Done =>
    /\ summary.trueTotalPLN =
         IF Present(listing.rentPLN)
         THEN listing.rentPLN + (IF Present(listing.adminPLN) THEN listing.adminPLN ELSE 0)
         ELSE NULL
    /\ summary.additionalFeesTotal = SumAmounts(descriptionAnalysis.additionalFees)
    /\ summary.additionalFees = descriptionAnalysis.additionalFees

\* C3 witness: a listing with rent, admin fee and an internet fee in the description.
C3_Witness ==
  /\ Done
  /\ listing.rentPLN = 3000
  /\ listing.adminPLN = 700
  /\ summary.additionalFeesTotal = 60
  /\ summary.trueTotalPLN = 3700

C5_HiddenUtilities ==
  Analysed =>
    LET admin == listing.adminPLN
        u     == descriptionAnalysis.hiddenUtilities
        hs    == OfType("hidden_utilities")
    IN  /\ Len(hs) <= 1
        /\ Len(hs) = 1 <=> (u # NoUtilities /\ (~Present(admin) \/ admin < 10))
        /\ \A i \in 1..Len(hs) :
             /\ hs[i].severity = "medium"
             /\ hs[i].message.args = <<u.min, u.max>>
             /\ hs[i].estimatedCost = u

\* C5 witness: an admin fee of 10 suppresses the inconsistency although an
\* estimate exists.
C5_Witness ==
  /\ Analysed
  /\ listing.adminPLN = 10
  /\ descriptionAnalysis.hiddenUtilities = [min |-> 100, max |-> 150, avg |-> 125]
  /\ Len(OfType("hidden_utilities")) = 0

\* The phrase "bez zameldowania"
BezZameldowania == <<"b","e","z"," ","z","a","m","e","l","d","o","w","a","n","i","a">>

\* C6: every description that contains "bez zameldowania" yields
\* registrationAllowed = false and a no_registration inconsistency of
\* severity medium.
C6_BezZameldowania ==
  (Analysed /\ Includes(toLowerCase(listing.descriptionPL), BezZameldowania)) =>
    /\ descriptionAnalysis.registrationAllowed = "false"
    /\ Len(OfType("no_registration")) = 1
    /\ OfType("no_registration")[1].severity = "medium"

\* The risk of the same listing with the registration flag unknown:
\* detectInconsistencies followed by assessRisk on the same inputs.
RiskWithRegistrationUnknown ==
  LET da0 == [descriptionAnalysis EXCEPT !.registrationAllowed = "null"]
      da1 == [da0 EXCEPT !.inconsistencies =
                detectInconsistencies([depositPLN |-> listing.depositPLN,
                                       adminPLN   |-> listing.adminPLN,
                                       rentPLN    |-> listing.rentPLN], da0)]
  IN  assessRisk(BuildSummary(listing, descriptionEN, da1), da1)

\* C7: end to end, a listing whose description disallows registration scores
\* exactly 2 points more than the otherwise identical listing whose
\* registration flag is unknown.
C7_RegistrationAddsTwo ==
  (Done /\ descriptionAnalysis.registrationAllowed = "false") =>
    risk.score = RiskWithRegistrationUnknown.score + 2

\* C8: when the description yields no extracted deposit, no utility estimate
\* and does not resolve registration to false, there is no inconsistency,
\* whatever structured fields are present or absent.
C8_NothingFromAbsence ==
  (/\ Analysed
   /\ descriptionAnalysis.hiddenDeposit = NULL
   /\ descriptionAnalysis.hiddenUtilities = NoUtilities
   /\ descriptionAnalysis.registrationAllowed # "false") =>
    descriptionAnalysis.inconsistencies = <<>>

\* C8 witness: a listing without deposit and admin fee whose description
\* says nothing about deposit, utilities or registration.
C8_Witness ==
  /\ Analysed
  /\ listing.depositPLN = NULL
  /\ listing.adminPLN = NULL
  /\ listing.descriptionPL = SentNotary
  /\ descriptionAnalysis.hiddenDeposit = NULL
  /\ descriptionAnalysis.hiddenUtilities = NoUtilities
  /\ descriptionAnalysis.registrationAllowed = "null"
  /\ descriptionAnalysis.inconsistencies = <<>>

\* C9: level is High iff score >= 6, Medium iff 3 <= score <= 5, Low iff
\* score <= 2; confidence = max(40, 100 - 5 * score), an integer in 40..100
\* that is 40 exactly when score >= 12.
C9_LevelAndConfidence ==
  Done =>
    /\ risk.score \in Nat
    /\ risk.level \in {"Low", "Medium", "High"}
    /\ risk.level = "High" <=> risk.score >= 6
    /\ risk.level = "Medium" <=> (risk.score >= 3 /\ risk.score <= 5)
    /\ risk.level = "Low" <=> risk.score <= 2
    /\ risk.confidence \in 40..100
    /\ risk.confidence >= 100 - 5 * risk.score
    /\ risk.confidence = 100 - 5 * risk.score \/ risk.confidence = 40
    /\ risk.confidence = 40 <=> risk.score >= 12

\* C9 witness: a score above 12, where the floor of 40 decides the confidence.
C9_Witness ==
  /\ Done
  /\ risk.score > 12
  /\ risk.confidence = 40
  /\ risk.level = "High"

Weight(cond, points) == IF cond THEN points ELSE 0

\* The conditions of the scoring table that hold, with their weights.
TableConditions ==
  LET rent    == listing.rentPLN
      admin   == listing.adminPLN
      deposit == listing.depositPLN
      ppm2    == summary.pricePerM2
  IN  << <<Present(rent) /\ Present(deposit) /\ deposit > 2 * rent, 2>>,
         <<Present(rent) /\ Present(admin) /\ 5 * admin > 3 * rent, 1>>,
         <<ppm2 # NULL /\ ppm2 > 150, 2>>,
         <<ppm2 # NULL /\ ppm2 > 0 /\ ppm2 < 40, 2>>,
         <<~Present(admin) /\ descriptionAnalysis.hiddenUtilities = NoUtilities, 1>>,
         <<~Present(deposit) /\ descriptionAnalysis.hiddenDeposit = NULL, 1>>,
         <<Len(descriptionEN) < 200, 1>>,
         <<listing.availableFrom = NoDate, 1>>,
         <<descriptionAnalysis.notaryInfo.required, 1>>,
         <<descriptionAnalysis.registrationAllowed = "false", 2>> >>

RECURSIVE TableScore(_, _)
TableScore(conds, i) ==
  IF i > Len(conds) THEN 0
  ELSE Weight(conds[i][1], conds[i][2]) + TableScore(conds, i + 1)

\* C10: the score is the sum of the weights of the scoring-table conditions
\* that hold (+3 per high and +2 per medium inconsistency, then the table's
\* ten conditions), and there is one note per triggered condition.
C10_ScoreIsSumOfWeights ==
  Done =>
    /\ risk.score = 3 * Len(OfSeverity("high")) + 2 * Len(OfSeverity("medium"))
                      + TableScore(TableConditions, 1)
    /\ Len(risk.notes) =
         Len(descriptionAnalysis.inconsistencies)
           + Cardinality({i \in 1..Len(TableConditions) : TableConditions[i][1]})

\* C10 witness: a high and a medium inconsistency together with conditions
\* of the table.
C10_Witness ==
  /\ Done
  /\ Len(OfSeverity("high")) = 1
  /\ Len(OfSeverity("medium")) = 2
  /\ descriptionAnalysis.notaryInfo.required
  /\ listing.availableFrom = NoDate
  /\ risk.score >= 12

----------------------------------------------------------------------------
(* The empty listing                                                       *)

\* C11: for the listing with an empty description and every structured
\* field absent, no inconsistency is emitted and the risk assessment is
\* score 4, level Medium, confidence 80: one point each for the unset
\* administrative fee, the unset deposit, the short description and the
\* unset availability date.
C11_EmptyListing ==
  (Done /\ listing = NoListing) =>
    /\ descriptionAnalysis.inconsistencies = <<>>
    /\ risk.score = 4
    /\ risk.level = "Medium"
    /\ risk.confidence = 80
    /\ risk.notes = << Msg("Admin / utilities not specified.", <<>>),
                       Msg("Deposit not specified.", <<>>),
                       Msg("Description is short or vague.", <<>>),
                       Msg("Availability date not specified.", <<>>) >>

\* C11 witness: the empty listing has been scored.
C11_Witness ==
  /\ Done
  /\ listing = NoListing
  /\ descriptionEN = <<>>
  /\ Len(risk.notes) = 4

----------------------------------------------------------------------------
(* Extraction from the description                                         *)

\* The text the extraction works on
CombinedText == Combined(listing.descriptionPL, descriptionEN)

FeesOfType(type) ==
  SelectSeq(descriptionAnalysis.additionalFees, LAMBDA f : f.type = type)

\* C12: a utility estimate, when there is one, satisfies
\* 50 <= min <= max <= 500 and avg = round((min + max) / 2); a utility
\* mention whose only value lies outside 50..500 gives no estimate, a single
\* value X inside the band gives {X, X, X}, and the range 100-150 with no
\* structured administrative fee gives {100, 150, 125} together with one
\* hidden_utilities inconsistency.
C12_UtilityEstimate ==
  Analysed =>
    LET u == descriptionAnalysis.hiddenUtilities IN
    /\ u # NoUtilities =>
         /\ 50 <= u.min /\ u.min <= u.max /\ u.max <= 500
         /\ 2 * u.avg \in {u.min + u.max, u.min + u.max + 1}
    /\ listing.descriptionPL = Sentence.utilitiesHigh => u = NoUtilities
    /\ listing.descriptionPL = Sentence.utilitiesSingle =>
         u = [min |-> 120, max |-> 120, avg |-> 120]
    /\ listing.descriptionPL = SentUtilities =>
         /\ u = [min |-> 100, max |-> 150, avg |-> 125]
         /\ listing.adminPLN = NULL => Len(OfType("hidden_utilities")) = 1

\* C12 witness: the mention of 600 alone has been parsed and has given no
\* estimate.
C12_Witness ==
  /\ Analysed
  /\ listing.descriptionPL = Sentence.utilitiesHigh
  /\ descriptionEN = Sentence.utilitiesHigh
  /\ descriptionAnalysis.hiddenUtilities = NoUtilities

\* The words of the first pattern of isNumberInBadContext
BusLineWords ==
  << <<"l","i","n","i","a">>, <<"l","i","n","i","e">>, <<"l","i","n","e">>,
     <<"b","u","s">>, <<"a","u","t","o","b","u","s">>, <<"t","r","a","m","w","a","j">>,
     <<"t","r","a","m">>, <<"m","e","t","r","o">> >>

\* The number written as digits stands at pos, no digit around it.
NumberAt(text, pos, digits) ==
  /\ HasAt(text, pos, digits)
  /\ pos = 1 \/ text[pos - 1] \notin Digits
  /\ pos + Len(digits) > Len(text) \/ text[pos + Len(digits)] \notin Digits

\* A bus-line word and one blank stand right before pos.
AfterBusLineWord(text, pos) ==
  \E w \in 1..Len(BusLineWords) :
    /\ pos - Len(BusLineWords[w]) - 1 >= 1
    /\ HasAt(text, pos - Len(BusLineWords[w]) - 1, BusLineWords[w] \o <<" ">>)

\* C13: no internet, TV or parking fee is recorded from a number that is
\* immediately preceded by a bus-line word such as "linia": the amount of
\* every such fee stands somewhere in the text without a bus-line word
\* right before it.
C13_NoFeeFromBusLineNumber ==
  Analysed =>
    \A i \in 1..Len(descriptionAnalysis.additionalFees) :
      LET fee == descriptionAnalysis.additionalFees[i] IN
      fee.type \in {"internet", "tv", "parking"} =>
        \E pos \in 1..Len(CombinedText) :
          /\ NumberAt(CombinedText, pos, NumToChars(fee.amount))
          /\ ~AfterBusLineWord(CombinedText, pos)

\* The band of each type of fee
FeeRange(type) ==
  CASE type = "internet"    -> 40..200
    [] type = "tv"          -> 30..150
    [] type = "parking"     -> 100..500
    [] type = "internet_tv" -> 60..250

\* The number the patterns of a type of fee pick: the first match of the
\* first pattern that matches
PickedAmount(type) ==
  LET m == CASE type = "internet"    -> MatchEither(CombinedText, internetAfter, internetBefore)
             [] type = "tv"          -> MatchEither(CombinedText, tvAfter, tvBefore)
             [] type = "parking"     -> MatchEither(CombinedText, parkingAfter, parkingBefore)
             [] type = "internet_tv" -> Search(comboPattern, CombinedText, 1)
  IN  IF m.ok THEN parseInt(Group(CombinedText, m, 1)) ELSE NULL

\* C14: the amount of every recorded fee lies in the band of its type
\* (internet 40-200, tv 30-150, parking 100-500, internet_tv 60-250), and
\* when the number picked for a type lies outside the band no fee of that
\* type is recorded.
C14_FeesWithinRange ==
  Analysed =>
    /\ \A i \in 1..Len(descriptionAnalysis.additionalFees) :
         descriptionAnalysis.additionalFees[i].amount
           \in FeeRange(descriptionAnalysis.additionalFees[i].type)
    /\ \A type \in {"internet", "tv", "parking", "internet_tv"} :
         (PickedAmount(type) # NULL /\ PickedAmount(type) \notin FeeRange(type))
           => FeesOfType(type) = <<>>

\* C14 witness: "Internet 300 zl" has been parsed and no fee recorded.
C14_Witness ==
  /\ Analysed
  /\ listing.descriptionPL = Sentence.internetHigh
  /\ PickedAmount("internet") = 300
  /\ descriptionAnalysis.additionalFees = <<>>

\* C15: an internet_tv fee never stands next to an internet or a tv fee,
\* there is at most one of it, and totalAdditionalFees is the sum of the
\* recorded amounts, the combined fee counted once.
C15_ComboReplacesSingles ==
  Analysed =>
    /\ FeesOfType("internet_tv") # <<>> =>
         /\ Len(FeesOfType("internet_tv")) = 1
         /\ FeesOfType("internet") = <<>>
         /\ FeesOfType("tv") = <<>>
    /\ descriptionAnalysis.totalAdditionalFees
         = SumAmounts(FeesOfType("internet")) + SumAmounts(FeesOfType("tv"))
           + SumAmounts(FeesOfType("internet_tv")) + SumAmounts(FeesOfType("parking"))
    /\ listing.descriptionPL = Two(Sentence.combo, SentParking) =>
         descriptionAnalysis.totalAdditionalFees = 320

\* C15 witness: "Internet + TV 120 zl", which the internet pattern matches
\* as well, has given the combined fee alone.
C15_Witness ==
  /\ Analysed
  /\ listing.descriptionPL = Sentence.combo
  /\ PickedAmount("internet") = 120
  /\ descriptionAnalysis.additionalFees = <<Fee("internet_tv", 120)>>
  /\ descriptionAnalysis.totalAdditionalFees = 120

\* C16: the advertiser type is "agency" whenever an agency keyword occurs,
\* a private keyword or not; it is "private" only when a private keyword
\* occurs and no agency keyword does; it is null when neither occurs.
C16_AgencyBeforePrivate ==
  Analysed =>
    LET agency  == IncludesAny(CombinedText, agencyKeywords)
        private == IncludesAny(CombinedText, privateKeywords)
    IN  /\ agency => descriptionAnalysis.advertiserType = "agency"
        /\ descriptionAnalysis.advertiserType = "private" <=> (private /\ ~agency)
        /\ (~agency /\ ~private) <=> descriptionAnalysis.advertiserType = "null"

\* C16 witness: "Biuro, bez prowizji" carries a keyword of either kind and
\* is classified as an agency's.
C16_Witness ==
  /\ Analysed
  /\ listing.descriptionPL = Sentence.agencyNoCommission
  /\ Includes(CombinedText, <<"b","i","u","r","o">>)
  /\ Includes(CombinedText, <<"b","e","z"," ","p","r","o","w","i","z","j","i">>)
  /\ descriptionAnalysis.advertiserType = "agency"

\* The amounts the utility mention of the description names, read off its
\* text: "Media ok. X zl na osobe" names X, "Media ok. X-Y zl na osobe"
\* names X and Y; the other descriptions and the service's translation
\* mention no utilities.
MentionedUtilityValues ==
  CASE listing.descriptionPL = SentUtilities              -> {100, 150}
    [] listing.descriptionPL = Sentence.utilitiesHigh     -> {600}
    [] listing.descriptionPL = Sentence.utilitiesSingle   -> {120}
    [] listing.descriptionPL = Sentence.utilitiesLowHigh  -> {40, 90}
    [] listing.descriptionPL = Sentence.utilitiesOdd      -> {100, 151}
    [] listing.descriptionPL = Sentence.utilitiesReversed -> {150, 100}
    [] OTHER                                              -> {}

\* Those of them that lie in 50..500
AcceptedUtilityValues == { val \in MentionedUtilityValues : val >= 50 /\ val <= 500 }

\* C21: hiddenUtilities.min is the smallest and hiddenUtilities.max the
\* largest of all accepted utility values over all matches of all utility
\* patterns, both ends of a range "X-Y" counting as accepted values when they
\* lie in 50..500, a range written high-to-low included.
C21_UtilityExtremes ==
  Analysed =>
    LET u == descriptionAnalysis.hiddenUtilities IN
    IF AcceptedUtilityValues = {} THEN u = NoUtilities
    ELSE /\ u.min = SetMin(AcceptedUtilityValues)
         /\ u.max = SetMax(AcceptedUtilityValues)

\* The numbers of the contract-length mentions, per pattern in text order:
\* every match of every contract pattern
ContractMentions ==
  [p \in 1..Len(contractPatterns) |->
     With(matchAll(CombinedText, contractPatterns[p]), LAMBDA ms :
       [i \in 1..Len(ms) |-> parseInt(Group(CombinedText, ms[i], 1))])]

\* C22: contractTerms.months, when present, lies in 1..36 and is the first
\* match, in pattern order and then text order, whose number lies in 1..36;
\* contractTerms is set whenever some contract-length mention with a number
\* in 1..36 matches some pattern, an earlier match of the same pattern with
\* a number outside 1..36 or not.
C22_ContractFirstInRange ==
  Analysed =>
    LET months  == descriptionAnalysis.contractTerms.months
        inRange == SelectSeq(ContractMentions[1] \o ContractMentions[2] \o ContractMentions[3],
                             LAMBDA n : n >= 1 /\ n <= 36)
    IN  IF inRange = <<>> THEN months = NULL ELSE months = inRange[1]

\* The amounts of the deposit mentions, per pattern in text order: every
\* match of every deposit pattern
DepositMentions ==
  [p \in 1..Len(depositPatterns) |->
     With(matchAll(CombinedText, depositPatterns[p]), LAMBDA ms :
       [i \in 1..Len(ms) |->
          parseInt(StripChars(Group(CombinedText, ms[i], 1), {" ", ",", "."}))])]

\* C23: hiddenDeposit is either null or strictly between 500 and 50000, and
\* when set it is the first match in pattern order then text order that
\* lies strictly between 500 and 50000; matches outside are skipped, 500 and
\* 50000 themselves included, and nothing after the first accepted value
\* changes it.
C23_DepositFirstInRange ==
  Analysed =>
    LET deposit == descriptionAnalysis.hiddenDeposit
        inRange == SelectSeq(DepositMentions[1] \o DepositMentions[2] \o DepositMentions[3],
                             LAMBDA n : n > 500 /\ n < 50000)
    IN  /\ deposit = NULL \/ (deposit > 500 /\ deposit < 50000)
        /\ IF inRange = <<>> THEN deposit = NULL ELSE deposit = inRange[1]

\* C23 witness: in "Kaucja 400 zl. Kaucja 3000 zl" the first match of the
\* first pattern, 400, has been skipped and the second, 3000, accepted.
C23_Witness ==
  /\ Analysed
  /\ listing.descriptionPL = Sentence.depositSecond
  /\ DepositMentions[1][1] = 400
  /\ DepositMentions[1][2] = 3000
  /\ descriptionAnalysis.hiddenDeposit = 3000

\* C26: additionalFees holds at most one entry among internet, tv and
\* internet_tv and at most one parking entry, so at most two entries; a tv
\* fee is not recorded once an internet fee has been recorded; and
\* totalAdditionalFees, the sum of the amounts, is at most 750.
C26_AtMostTwoFees ==
  Analysed =>
    /\ Len(FeesOfType("internet")) + Len(FeesOfType("tv"))
         + Len(FeesOfType("internet_tv")) <= 1
    /\ Len(FeesOfType("parking")) <= 1
    /\ Len(descriptionAnalysis.additionalFees) <= 2
    /\ FeesOfType("internet") # <<>> => FeesOfType("tv") = <<>>
    /\ descriptionAnalysis.totalAdditionalFees
         = SumAmounts(descriptionAnalysis.additionalFees)
    /\ descriptionAnalysis.totalAdditionalFees <= 750

\* C26 witness: "Internet 60 zl. TV 50 zl" has been parsed, the tv amount
\* picked is within its band, and the internet fee alone is recorded.
C26_Witness ==
  /\ Analysed
  /\ listing.descriptionPL = Two(SentInternet, Sentence.tv)
  /\ PickedAmount("tv") = 50
  /\ descriptionAnalysis.additionalFees = <<Fee("internet", 60)>>

\* C27: a description containing "no commission" is classified agency, never
\* private, and so is any text containing "agent", "agency", "biuro",
\* "prowizja" or "posrednik", negated or not.
C27_NegationIsAgency ==
  Analysed =>
    /\ Includes(CombinedText, <<"n","o"," ","c","o","m","m","i","s","s","i","o","n">>)
         => descriptionAnalysis.advertiserType = "agency"
    /\ \A word \in { <<"a","g","e","n","t">>, <<"a","g","e","n","c","y">>,
                      <<"b","i","u","r","o">>, <<"p","r","o","w","i","z","j","a">>,
                      <<"p","o","s_","r","e","d","n","i","k">> } :
         Includes(CombinedText, word) => descriptionAnalysis.advertiserType = "agency"

\* C27 witness: "No commission" has been classified as an agency's.
C27_Witness ==
  /\ Analysed
  /\ listing.descriptionPL = Sentence.noCommission
  /\ descriptionAnalysis.advertiserType = "agency"

----------------------------------------------------------------------------
(* Repeated requests                                                       *)

\* The request in hand is the one remembered.
SameRequest == earlier.listing = listing /\ earlier.descriptionEN = descriptionEN

\* C17: parseDescriptionForHiddenInfo, detectInconsistencies and assessRisk
\* give the same results on the same inputs, whatever requests were served
\* in between: the answer to a request equals the answer remembered from an
\* earlier request for the same listing and translation.
C17_SameInputsSameResults ==
  /\ (Analysed /\ SameRequest) => descriptionAnalysis = earlier.descriptionAnalysis
  /\ (Done /\ SameRequest) =>
       /\ summary = earlier.summary
       /\ risk = earlier.risk
       /\ trustBreakdown = earlier.trustBreakdown

\* C17 witness: a description with a contract term is parsed again after
\* its answer was remembered, the RegExp objects of the call having moved
\* their lastIndex.
C17_Witness ==
  /\ pc = "enriching"
  /\ SameRequest
  /\ listing.descriptionPL = Sentence.contract
  /\ descriptionAnalysis.contractTerms = [months |-> 12]
  /\ regExpState.contract # <<0, 0, 0>>

----------------------------------------------------------------------------
(* Empty descriptions                                                      *)

\* C18: for a description that is empty in both languages the parser gives
\* every extraction as absent (hiddenDeposit, hiddenUtilities,
\* contractTerms, notaryInfo, registrationAllowed and advertiserType null;
\* additionalFees, meteredFeeTypes and importantNotes empty;
\* totalAdditionalFees 0; hasMeteredFees false), and detectInconsistencies
\* and assessRisk give a result for every combination of absent structured
\* fields: no inconsistency, and a score, a level and a confidence.
C18_EmptyDescription ==
  (Analysed /\ listing.descriptionPL = <<>> /\ descriptionEN = <<>>) =>
    /\ descriptionAnalysis = NoAnalysis
    /\ descriptionAnalysis.hiddenDeposit = NULL
    /\ descriptionAnalysis.hiddenUtilities = NoUtilities
    /\ descriptionAnalysis.contractTerms = NoContract
    /\ descriptionAnalysis.notaryInfo = NoNotary
    /\ descriptionAnalysis.registrationAllowed = "null"
    /\ descriptionAnalysis.advertiserType = "null"
    /\ descriptionAnalysis.additionalFees = <<>>
    /\ descriptionAnalysis.meteredFeeTypes = <<>>
    /\ descriptionAnalysis.importantNotes = <<>>
    /\ descriptionAnalysis.totalAdditionalFees = 0
    /\ ~descriptionAnalysis.hasMeteredFees
    /\ descriptionAnalysis.inconsistencies = <<>>
    /\ Done =>
         /\ risk.score \in 0..20
         /\ risk.level \in {"Low", "Medium", "High"}
         /\ risk.confidence \in 40..100
         /\ Len(risk.notes) \in 0..10

\* C18 witness: an empty description with only the rent and the area of the
\* structured fields present has been parsed and scored.
C18_Witness ==
  /\ Done
  /\ listing.descriptionPL = <<>>
  /\ listing.rentPLN = 3000
  /\ listing.areaNum = 26
  /\ listing.adminPLN = NULL
  /\ listing.depositPLN = NULL
  /\ listing.availableFrom = NoDate
  /\ risk.score = 4

----------------------------------------------------------------------------
(* The trust breakdown                                                     *)

\* The checks whose passed field is the boolean true
PassedChecks ==
  {i \in 1..Len(trustBreakdown.checks) : trustBreakdown.checks[i].passed = JsBoolean(TRUE)}

\* C19: in every trust breakdown total is the number of checks, 7 or, when
\* the registration flag is known, 8; passed is the number of checks whose
\* passed field is true; 0 <= passed <= total; percentage is
\* round(100 * passed / total); the level is low below 50, medium from 50
\* and below 75, high otherwise.
C19_TrustBreakdown ==
  Done =>
    /\ trustBreakdown.total = Len(trustBreakdown.checks)
    /\ trustBreakdown.total =
         (IF descriptionAnalysis.registrationAllowed = "null" THEN 7 ELSE 8)
    /\ trustBreakdown.passed = Cardinality(PassedChecks)
    /\ 0 <= trustBreakdown.passed /\ trustBreakdown.passed <= trustBreakdown.total
    /\ 2 * trustBreakdown.total * trustBreakdown.percentage
         <= 200 * trustBreakdown.passed + trustBreakdown.total
    /\ 2 * trustBreakdown.total * trustBreakdown.percentage
         > 200 * trustBreakdown.passed - trustBreakdown.total
    /\ trustBreakdown.level = "low" <=> trustBreakdown.percentage < 50
    /\ trustBreakdown.level = "medium" <=>
         (50 <= trustBreakdown.percentage /\ trustBreakdown.percentage < 75)
    /\ trustBreakdown.level \in {"low", "medium", "high"}

----------------------------------------------------------------------------
(* Earlier revisions                                                       *)

\* C20: in the earlier revisions the utility average replaces the
\* administrative fee only when the structured fee is absent or below 10;
\* with a structured fee of 10 or more trueAdminPLN is the structured fee
\* and trueTotalPLN is rent + structured fee, estimate or no estimate.
C20_SubstitutionBelowFloorOnly ==
  (Done /\ listing.adminPLN # NULL /\ listing.adminPLN >= 10) =>
    /\ summary.trueAdminPLN = listing.adminPLN
    /\ listing.rentPLN # NULL => summary.trueTotalPLN = listing.rentPLN + listing.adminPLN

----------------------------------------------------------------------------
(* The risk view and the trust view                                        *)

\* assessRisk pushed the flag.
HasNote(text) == \E i \in 1..Len(risk.notes) : risk.notes[i] = Msg(text, <<>>)

\* The trust check with this label passed.
CheckPassed(label) ==
  \E i \in 1..Len(trustBreakdown.checks) :
    /\ trustBreakdown.checks[i].label = label
    /\ trustBreakdown.checks[i].passed = JsBoolean(TRUE)

\* C25: the risk scorer's +2 high-deposit penalty is applied exactly when
\* the trust breakdown's "Reasonable deposit" check fails, a deposit known
\* only from the description or exceeding the structured one included.
C25_HighDepositSameFigure ==
  Done =>
    (HasNote("High deposit: more than 2x monthly rent.")
       <=> ~CheckPassed("Reasonable deposit"))

\* C28: the trust checks "Detailed description", "Availability date",
\* "Price per m2 check" and "Deposit specified" each pass exactly when
\* assessRisk does not apply the corresponding penalty (short description,
\* availability unset, price per area above 150 or below 40, deposit unset
\* with no extracted deposit).
C28_FourSignalsAgree ==
  Done =>
    /\ CheckPassed("Detailed description") <=> ~HasNote("Description is short or vague.")
    /\ CheckPassed("Availability date") <=> ~HasNote("Availability date not specified.")
    /\ CheckPassed("Price per m^2 check")
         <=> ~( \/ HasNote("Price per m2 seems high.")
                \/ HasNote("Price per m2 seems very low - double-check for hidden costs.") )
    /\ CheckPassed("Deposit specified") <=> ~HasNote("Deposit not specified.")

\* C28 witness: a listing at 185 PLN per m2 with a description of 200
\* characters or more, a date and no deposit anywhere has been scored: the
\* price check fails and the price penalty is applied, the description and
\* date checks pass, the deposit check fails.
C28_Witness ==
  /\ Done
  /\ summary.pricePerM2 = 185
  /\ Len(summary.descriptionEN) >= 200
  /\ HasNote("Price per m2 seems high.")
  /\ ~CheckPassed("Price per m^2 check")
  /\ CheckPassed("Detailed description")
  /\ CheckPassed("Availability date")
  /\ HasNote("Deposit not specified.")
  /\ ~CheckPassed("Deposit specified")

\* C29: end to end, the deposit-unset penalty never occurs together with a
\* deposit_mismatch inconsistency or the high-deposit penalty; the
\* admin-unset penalty never occurs together with a hidden_utilities
\* inconsistency or the high-admin penalty; the two price-per-area penalties
\* never occur together.
C29_ExclusivePenalties ==
  Done =>
    /\ HasNote("Deposit not specified.") =>
         /\ OfType("deposit_mismatch") = <<>>
         /\ ~HasNote("High deposit: more than 2x monthly rent.")
    /\ HasNote("Admin / utilities not specified.") =>
         /\ OfType("hidden_utilities") = <<>>
         /\ ~HasNote("Admin / utilities are high compared to base rent.")
    /\ ~( /\ HasNote("Price per m2 seems high.")
           /\ HasNote("Price per m2 seems very low - double-check for hidden costs.") )

\* C29 witness: a listing with rent and area alone, at 38 PLN per m2, has
\* been scored with the deposit-unset, the admin-unset and the low-price
\* penalty.
C29_Witness ==
  /\ Done
  /\ summary.pricePerM2 = 38
  /\ HasNote("Deposit not specified.")
  /\ HasNote("Admin / utilities not specified.")
  /\ HasNote("Price per m2 seems very low - double-check for hidden costs.")

----------------------------------------------------------------------------
(* The commute lookups and the place searches                              *)

\* The field of the result that holds the minutes of the mode at index m
MinutesIn(result, m) ==
  CASE m = 1 -> result.transitMinutes
    [] m = 2 -> result.drivingMinutes
    [] m = 3 -> result.bicyclingMinutes
    [] m = 4 -> result.walkingMinutes

\* The modes whose lookup succeeded
Succeeded == { m \in DOMAIN commute.lookups : commute.lookups[m].ok }

\* C24: calculateFullCommute starts the four lookups together and resolves
\* only after all four have settled; its result is determined by the
\* lookups' outcomes, whatever the order they settled in; a failed lookup
\* gives null for its mode and leaves the others alone; the result is null
\* if and only if all four fail; the distance is that of the first
\* successful mode in the order transit, driving, bicycling, walking.
C24_CommuteJoin ==
  /\ commute.pc = "waiting" =>
       commute.inFlight \cup DOMAIN commute.lookups = 1..4
  /\ (commute.pc = "done" /\ commute.settled # <<>>) =>
       /\ Len(commute.settled) = 4 /\ commute.inFlight = {}
       /\ commute.result = NoCommute <=> Succeeded = {}
       /\ \A m \in 1..4 :
            MinutesIn(commute.result, m) =
              IF m \in Succeeded /\ commute.lookups[m].durationMinutes # 0
              THEN commute.lookups[m].durationMinutes ELSE NULL
       /\ Succeeded # {} =>
            commute.result.distanceKm = commute.lookups[SetMin(Succeeded)].distanceKm

\* C24 witness: the lookups settled in the order walking, bicycling,
\* driving, transit; transit failed, the others succeeded, and the function
\* returned driving's distance.
C24_Witness ==
  /\ commute.pc = "done"
  /\ commute.settled = <<4, 3, 2, 1>>
  /\ Succeeded = {2, 3, 4}
  /\ commute.result.distanceKm = 6
  /\ commute.result.transitMinutes = NULL

\* C30: discoverNearbyPlaces issues its searches in batches of 5: at no time
\* are more than 5 searches in flight; a batch starts only after every
\* search of the batches before it has settled; every category is searched
\* exactly once; a failed search is left out of the result and aborts
\* neither the other searches nor the remaining batches.
C30_BatchesOfFive ==
  /\ Cardinality(places.inFlight) <= 5
  /\ \A c \in places.inFlight :
       /\ \A d \in places.inFlight : (c - 1) \div 5 = (d - 1) \div 5
       /\ \A d \in 1..MaxCategories :
            (d - 1) \div 5 < (c - 1) \div 5 => places.outcome[d] # "none yet"
  /\ \A c \in 1..MaxCategories : places.searches[c] <= 1
  /\ (places.pc = "done" /\ places.result.ok) =>
       /\ \A c \in 1..MaxCategories :
            /\ places.searches[c] = 1
            /\ c \in places.result.places <=> places.outcome[c] # "null"

\* C30 witness: the first search of the first batch failed, the searches of
\* the second batch were made, and the function returned the others'
\* results.
C30_Witness ==
  /\ places.pc = "done"
  /\ places.outcome[1] = "null"
  /\ places.outcome[MaxCategories] = "found"
  /\ places.result = [ok |-> TRUE, places |-> 2..MaxCategories]

====
